---- MODULE Spec2Model ----
(***************************************************************************)
(* A model of the Zotero Librarian toolkit (zotero_librarian/__init__.py)  *)
(* and of the ZoteroAgent wrapper (agents.py).  The library served by the  *)
(* reference manager's local API is the state; every toolkit function is   *)
(* an action made of the API requests it issues, in the order it issues    *)
(* them.  A request may fail (the API raises): where the code catches the  *)
(* exception the action continues as the code does, where it does not the  *)
(* call ends with the exception reaching the caller.                       *)
(***************************************************************************)
EXTENDS Integers, Sequences, FiniteSets, TLC

VARIABLES
    pgLib,      \* pagination: the items the API serves, in API order
    start,      \* _all_items: local variable start
    yielded,    \* _all_items: everything the generator has yielded so far
    starts,     \* _all_items: the start offset of every page request issued
    pgPc,       \* _all_items: "loop" while the while-loop runs, "done" after break
    pgChanged,  \* pagination: TRUE once another client changed the library
    lib,        \* the library behind the local API: items, trash, collections
    res,        \* the outcome of the toolkit call that ended last
    clients,    \* two callers in a read-modify-write: what each read and sent
    lastWriter, \* the caller whose zot.update_item the API accepted last
    cache,      \* ZoteroAgent._item_cache
    got,        \* what the last agent call returned, when it was get_item
    agentWrote, \* per item key, the library version of the last agent write
    papers,     \* the paper directory: file name -> content
    libraryCache \* zot._library_cache: the attribute set and the list it holds

pgVars == <<pgLib, start, yielded, starts, pgPc, pgChanged>>

libVars == <<lib, res>>

raceVars == <<clients, lastWriter>>

agentVars == <<cache, got, agentWrote>>

localVars == <<papers, libraryCache>>

vars == <<pgLib, start, yielded, starts, pgPc, pgChanged, lib, res,
          clients, lastWriter, cache, got, agentWrote, papers, libraryCache>>

\* an empty paper directory and a client without _library_cache
LocalIdle ==
    /\ papers = <<>>
    /\ libraryCache = [set |-> FALSE, items |-> <<>>]

(***************************************************************************)
(* Bounds of the model and constants of the program.                       *)
(***************************************************************************)
\* the largest library the pagination specification iterates over
MaxItems == 201

\* _all_items: limit = 100
Limit == 100

Min(a, b) == IF a < b THEN a ELSE b

(***************************************************************************)
(* _all_items: pagination over zot.items(start=..., limit=...).            *)
(***************************************************************************)
\* zot.items(start=s, limit=l): the page of at most l items after the first s
ZotItems(items, s, l) == SubSeq(items, s + 1, Min(s + l, Len(items)))

\* a library of n items, the item at position i identified by i
LibraryOf(n) == [i \in 1..n |-> i]

PgInit ==
    /\ pgLib \in {LibraryOf(n) : n \in 0..MaxItems}
    /\ start = 0
    /\ yielded = <<>>
    /\ starts = <<>>
    /\ pgPc = "loop"
    /\ pgChanged = FALSE
    /\ lib = [items |-> <<>>, trash |-> {}, colls |-> <<>>, version |-> 0]
    /\ res = [op |-> "none", key |-> "NX", args |-> <<>>, out |-> "returned",
              success |-> TRUE, log |-> <<>>, count |-> 0, failed |-> FALSE]
    /\ clients = <<>>
    /\ lastWriter = "none"
    /\ cache = <<>>
    /\ got = <<>>
    /\ agentWrote = <<>>
    /\ LocalIdle

\* one iteration of the while-loop: the variant that forgets the short-page
\* break and stops only at an empty page
AllItemsStepNoShortBreak ==
    /\ pgPc = "loop"
    /\ LET items == ZotItems(pgLib, start, Limit) IN
        /\ starts' = Append(starts, start)
        /\ IF items = <<>>
           THEN /\ pgPc' = "done"
                /\ UNCHANGED <<start, yielded>>
           ELSE /\ yielded' = yielded \o items
                /\ start' = start + Limit
                /\ pgPc' = "loop"
    /\ UNCHANGED <<pgLib, pgChanged, libVars, raceVars, agentVars,
                 localVars>>

\* one iteration of the while-loop: the variant that breaks on a full page
AllItemsStepBreakOnFull ==
    /\ pgPc = "loop"
    /\ LET items == ZotItems(pgLib, start, Limit) IN
        /\ starts' = Append(starts, start)
        /\ IF items = <<>>
           THEN /\ pgPc' = "done"
                /\ UNCHANGED <<start, yielded>>
           ELSE /\ yielded' = yielded \o items
                /\ IF Len(items) <= Limit
                   THEN pgPc' = "done" /\ UNCHANGED start
                   ELSE pgPc' = "loop" /\ start' = start + Limit
    /\ UNCHANGED <<pgLib, pgChanged, libVars, raceVars, agentVars,
                 localVars>>

\* one iteration of the while-loop of _all_items: request a page, stop when it
\* is empty, yield it, stop when it is short, otherwise advance start
AllItemsStep ==
    /\ pgPc = "loop"
    /\ LET items == ZotItems(pgLib, start, Limit) IN
        /\ starts' = Append(starts, start)
        /\ IF items = <<>>
           THEN /\ pgPc' = "done"
                /\ UNCHANGED <<start, yielded>>
           ELSE /\ yielded' = yielded \o items
                /\ IF Len(items) < Limit
                   THEN pgPc' = "done" /\ UNCHANGED start
                   ELSE pgPc' = "loop" /\ start' = start + Limit
    /\ UNCHANGED <<pgLib, pgChanged, libVars, raceVars, agentVars,
                 localVars>>

\* another client of the reference manager removes the first item while the
\* generator is suspended between two pages
PgExternalDelete ==
    /\ pgPc = "loop"
    /\ ~pgChanged
    /\ pgLib # <<>>
    /\ pgLib' = Tail(pgLib)
    /\ pgChanged' = TRUE
    /\ UNCHANGED <<start, yielded, starts, pgPc, libVars, raceVars, agentVars,
                 localVars>>

PgNext == AllItemsStep \/ PgExternalDelete

SpecPages == PgInit /\ [][PgNext]_vars

\* C5: on a library that does not change during the iteration, _all_items has
\* yielded, when it ends, every item exactly once and in API order, whatever
\* the size of the library (0 and the multiples of 100 included).
C5_AllItemsComplete ==
    (pgPc = "done" /\ ~pgChanged) => yielded = pgLib

\* C5 witness: the iteration of a library of exactly two full pages has ended
C5_Witness ==
    pgPc = "done" /\ ~pgChanged /\ Len(pgLib) = 2 * Limit /\ yielded = pgLib

\* C6: the loop requests the pages at start = 0, 100, 200, ..., never more than
\* floor(N/100) + 1 of them for an unchanging library of N items, and it can
\* always take its next step until it has stopped.
C6_BoundedLoop ==
    /\ \A i \in 1..Len(starts) : starts[i] = (i - 1) * Limit
    /\ ~pgChanged => Len(starts) <= (Len(pgLib) \div Limit) + 1
    /\ (pgPc = "done" /\ ~pgChanged) =>
            /\ Len(starts) = (Len(pgLib) \div Limit) + 1
            /\ Len(ZotItems(pgLib, starts[Len(starts)], Limit)) < Limit
            /\ \A i \in 1..(Len(starts) - 1) :
                  Len(ZotItems(pgLib, starts[i], Limit)) = Limit
    /\ pgPc \in {"loop", "done"}
    /\ pgPc = "loop" => ENABLED AllItemsStep

\* C6 witness: a library of 150 items has been read in two requests
C6_Witness ==
    pgPc = "done" /\ ~pgChanged /\ Len(pgLib) = 150 /\ starts = <<0, 100>>

(***************************************************************************)
(* The library behind the local API, as the toolkit sees it through        *)
(* pyzotero.  lib.items maps the key of every item ever created to its     *)
(* item dict, lib.trash holds the keys moved to trash, lib.colls maps the  *)
(* key of every existing collection to its collection dict, lib.version   *)
(* is the library version: every write request the API accepts raises it   *)
(* by one and stamps the object written with it.                           *)
(***************************************************************************)
\* the highest library version reached in the model: the number of write
\* requests the API accepts in one behaviour
MaxVersion == 2

\* the order in which the API lists items; X1, X2, X3 are the keys it gives to
\* the items created next; NX is the key of no item
KeyOrder == <<"K1", "K2", "N1", "A1", "X1", "X2", "X3">>

FreshKeys == <<"X1", "X2", "X3">>

NX == "NX"

\* the key of no collection
NXC == "NXC"

RelKeys == {"dc:relation:cites", "dc:relation:citedBy"}

NoRelations == [r \in RelKeys |-> <<>>]

\* an item dict: key, version and the entries of item["data"] the toolkit uses
Item(k, type, parent, title, tags, colls) ==
    [key |-> k, version |-> 0, itemType |-> type, parentItem |-> parent,
     title |-> title, abstractNote |-> "abs0", note |-> "",
     tags |-> tags, collections |-> colls, relations |-> NoRelations]

Range(s) == {s[i] : i \in 1..Len(s)}

\* [x for x in s if x not in drop]
Without(s, drop) == SelectSeq(s, LAMBDA x : x \notin drop)

\* the item exists and is not in the trash
Visible(L, k) == k \in DOMAIN L.items /\ k \notin L.trash

\* the keys of the visible items, in API order
VisibleKeys(L) == SelectSeq(KeyOrder, LAMBDA k : Visible(L, k))

\* zot.item(key), for a visible key
ZotItem(L, k) == L.items[k]

\* zot.children(key): the visible items whose parentItem is key
ZotChildren(L, k) ==
    LET ks == SelectSeq(KeyOrder,
                 LAMBDA c : Visible(L, c) /\ L.items[c].parentItem = k)
    IN [i \in 1..Len(ks) |-> L.items[ks[i]]]

\* zot.collection_items(key): the visible items filed in the collection
ZotCollectionItems(L, c) ==
    LET ks == SelectSeq(KeyOrder,
                 LAMBDA k : Visible(L, k) /\ c \in Range(L.items[k].collections))
    IN [i \in 1..Len(ks) |-> L.items[ks[i]]]

\* whether the API accepts zot.update_item(item): the item must exist and every
\* collection it names must exist
AcceptsUpdate(L, item) ==
    /\ Visible(L, item.key)
    /\ Range(item.collections) \subseteq DOMAIN L.colls

\* zot.update_item(item), variant in which the API refuses an item read before
\* the latest write (a version precondition)
ZotUpdateItemIfCurrent(L, item) ==
    IF item.version = L.items[item.key].version
    THEN [L EXCEPT !.items[item.key] = [item EXCEPT !.version = L.version + 1],
                   !.version = @ + 1]
    ELSE L

\* zot.update_item(item): the stored item becomes the item sent, whatever
\* version the sender had read; the API gives it the next version
ZotUpdateItem(L, item) ==
    [L EXCEPT !.items[item.key] = [item EXCEPT !.version = L.version + 1],
              !.version = @ + 1]

\* zot.delete_item(key): the item moves to the trash
ZotDeleteItem(L, k) == [L EXCEPT !.trash = @ \cup {k}, !.version = @ + 1]

\* the key the API gives to the next item created
NextKey(L) ==
    LET free == SelectSeq(FreshKeys, LAMBDA k : k \notin DOMAIN L.items)
    IN IF free = <<>> THEN NX ELSE free[1]

\* zot.create_items([data]): the item is stored under a new key
ZotCreateItem(L, data) ==
    LET k == NextKey(L) IN
    [L EXCEPT !.items = [x \in DOMAIN L.items \cup {k} |->
                    IF x = k THEN [data EXCEPT !.key = k, !.version = L.version + 1]
                    ELSE L.items[x]],
              !.version = @ + 1]

\* zot.delete_collection(key): the collection goes, and with it the
\* membership of every item filed in it
ZotDeleteCollection(L, c) ==
    [L EXCEPT
        !.colls = [x \in DOMAIN L.colls \ {c} |-> L.colls[x]],
        !.items = [k \in DOMAIN L.items |->
            [L.items[k] EXCEPT !.collections = Without(@, {c})]],
        !.version = @ + 1]

\* zot.update_collection(collection)
ZotUpdateCollection(L, c, coll) ==
    [L EXCEPT !.colls[c] = coll, !.version = @ + 1]

(***************************************************************************)
(* The outcome of a toolkit call: the library it leaves, whether it        *)
(* returned or raised, the "success" entry of the dict it returned (TRUE   *)
(* for a raw API response), the requests it issued, in order, the counter  *)
(* it reports (updated_items, moved_items) and whether a request failed.   *)
(***************************************************************************)
Req(call, k) == [call |-> call, key |-> k]

\* the call returned; failed: one of its requests failed
Returned(L, ok, log, n, failed) ==
    [lib |-> L, out |-> "returned", success |-> ok, log |-> log, count |-> n,
     failed |-> failed]

\* a request of the call failed and the exception reached the caller
Raised(L, log) ==
    [lib |-> L, out |-> "raised", success |-> FALSE, log |-> log, count |-> 0,
     failed |-> TRUE]

\* the calls that change the library
WriteCalls == {"update_item", "delete_item", "create_items", "delete_collection",
               "update_collection", "create_collections"}

Writes(log) == SelectSeq(log, LAMBDA r : r.call \in WriteCalls)

\* the read-modify-write of the item edits, variant wrapped in try/except:
\* a failing request is turned into a success False dict
ReadModifyWriteCaught(L, k, item, failRead, failWrite) ==
    IF failRead \/ ~Visible(L, k)
    THEN Returned(L, FALSE, <<Req("item", k)>>, 0, TRUE)
    ELSE LET log == <<Req("item", k), Req("update_item", k)>>
         IN IF failWrite \/ ~AcceptsUpdate(L, item)
            THEN Returned(L, FALSE, log, 0, TRUE)
            ELSE Returned(ZotUpdateItem(L, item), TRUE, log, 0, FALSE)

\* item = get_item(zot, key); <change item>; return zot.update_item(item)
\* with no try/except: a failing request raises to the caller.
\* item: the item dict read by get_item, after the change (it is looked at
\* only once the read has succeeded);
\* failRead, failWrite: the request fails for a reason outside the library
ReadModifyWrite(L, k, item, failRead, failWrite) ==
    IF failRead \/ ~Visible(L, k)
    THEN Raised(L, <<Req("item", k)>>)
    ELSE LET log == <<Req("item", k), Req("update_item", k)>>
         IN IF failWrite \/ ~AcceptsUpdate(L, item)
            THEN Raised(L, log)
            ELSE Returned(ZotUpdateItem(L, item), TRUE, log, 0, FALSE)

(***************************************************************************)
(* The toolkit functions, each from a library and its arguments to the     *)
(* outcome of the call.  fr, fw, f: the read, the write, the only request  *)
(* of the call fails for a reason outside the library (the API is down).   *)
(***************************************************************************)
\* get_item
GetItem(L, k, f) ==
    IF f \/ ~Visible(L, k)
    THEN Raised(L, <<Req("item", k)>>)
    ELSE Returned(L, TRUE, <<Req("item", k)>>, 0, FALSE)

\* get_notes: zot.children(key) only
GetNotes(L, k, f) ==
    IF f \/ ~Visible(L, k)
    THEN Raised(L, <<Req("children", k)>>)
    ELSE Returned(L, TRUE, <<Req("children", k)>>, 0, FALSE)

\* get_attachments: zot.item(key), then zot.children(key)
GetAttachments(L, k, fr, fw) ==
    IF fr \/ ~Visible(L, k)
    THEN Raised(L, <<Req("item", k)>>)
    ELSE IF fw
         THEN Raised(L, <<Req("item", k), Req("children", k)>>)
         ELSE Returned(L, TRUE, <<Req("item", k), Req("children", k)>>, 0, FALSE)

\* the loop of update_item_fields, variant that replaces the item's data by
\* the given fields (the fields not named are blanked)
SetFieldsReplace(item, fields) ==
    [f \in DOMAIN item |-> IF f \in DOMAIN fields THEN fields[f]
                           ELSE IF f \in {"title", "abstractNote"} THEN ""
                           ELSE item[f]]

\* for key, value in fields.items(): item["data"][key] = value
SetFields(item, fields) ==
    [f \in DOMAIN item |-> IF f \in DOMAIN fields THEN fields[f] ELSE item[f]]

\* update_item_fields
UpdateItemFields(L, k, fields, fr, fw) ==
    ReadModifyWrite(L, k, SetFields(ZotItem(L, k), fields), fr, fw)

\* the loop of add_tags_to_item, variant without the membership test
AppendAll(existing, tags) == existing \o tags

\* for tag in tags: if tag not in existing_tags: existing_tags.append(tag)
RECURSIVE AppendNew(_, _)
AppendNew(existing, tags) ==
    IF tags = <<>> THEN existing
    ELSE AppendNew(IF Head(tags) \in Range(existing) THEN existing
                   ELSE Append(existing, Head(tags)),
                   Tail(tags))

\* add_tags_to_item
AddTagsToItem(L, k, tags, fr, fw) ==
    ReadModifyWrite(L, k, [ZotItem(L, k) EXCEPT !.tags = AppendNew(@, tags)],
                    fr, fw)

\* remove_tags_from_item, variant with the filter inverted (keeps the listed
\* tags instead of the others)
RemoveTagsKeepListed(L, k, tags, fr, fw) ==
    ReadModifyWrite(L, k,
        [ZotItem(L, k) EXCEPT !.tags = SelectSeq(@, LAMBDA t : t \in Range(tags))],
        fr, fw)

\* remove_tags_from_item
RemoveTagsFromItem(L, k, tags, fr, fw) ==
    ReadModifyWrite(L, k,
        [ZotItem(L, k) EXCEPT !.tags = Without(@, Range(tags))], fr, fw)

\* move_item_to_collection
MoveItemToCollection(L, k, c, fr, fw) ==
    ReadModifyWrite(L, k, [ZotItem(L, k) EXCEPT !.collections = <<c>>], fr, fw)

\* add_item_to_collection, variant without the membership test
AddItemToCollectionAgain(L, k, c, fr, fw) ==
    ReadModifyWrite(L, k,
        [ZotItem(L, k) EXCEPT !.collections = Append(@, c)], fr, fw)

\* add_item_to_collection
AddItemToCollection(L, k, c, fr, fw) ==
    ReadModifyWrite(L, k,
        [ZotItem(L, k) EXCEPT !.collections =
                        IF c \in Range(@) THEN @ ELSE Append(@, c)], fr, fw)

\* remove_item_from_collection
RemoveItemFromCollection(L, k, c, fr, fw) ==
    ReadModifyWrite(L, k,
        [ZotItem(L, k) EXCEPT !.collections = Without(@, {c})], fr, fw)

\* relation_key = f"dc:relation:{relation_type}"
RelationKey(type) == IF type = "cites" THEN "dc:relation:cites"
                     ELSE "dc:relation:citedBy"

\* add_citation_relation, variant without the membership test
AddCitationRelationAgain(L, k, type, uri, fr, fw) ==
    ReadModifyWrite(L, k,
        [ZotItem(L, k) EXCEPT !.relations[RelationKey(type)] = Append(@, uri)],
        fr, fw)

\* add_citation_relation
AddCitationRelation(L, k, type, uri, fr, fw) ==
    ReadModifyWrite(L, k,
        [ZotItem(L, k) EXCEPT !.relations[RelationKey(type)] =
                        IF uri \in Range(@) THEN @ ELSE Append(@, uri)], fr, fw)

\* delete_item, variant that reads the item before it deletes it
DeleteItemReadFirst(L, k, f) ==
    IF f \/ ~Visible(L, k)
    THEN Raised(L, <<Req("item", k)>>)
    ELSE Returned(ZotDeleteItem(L, k), TRUE,
                  <<Req("item", k), Req("delete_item", k)>>, 0, FALSE)

\* delete_item: zot.delete_item(key), no try/except
DeleteItem(L, k, f) ==
    IF f \/ ~Visible(L, k)
    THEN Raised(L, <<Req("delete_item", k)>>)
    ELSE Returned(ZotDeleteItem(L, k), TRUE, <<Req("delete_item", k)>>, 0, FALSE)

\* attach_note: zot.create_items([note]), no try/except
AttachNote(L, parent, text, f) ==
    IF f
    THEN Raised(L, <<Req("create_items", parent)>>)
    ELSE Returned(ZotCreateItem(L,
                    [Item(NX, "note", parent, "", <<>>, <<>>) EXCEPT !.note = text]),
                  TRUE, <<Req("create_items", parent)>>, 0, FALSE)

\* update_note, variant without the try/except
UpdateNoteUncaught(L, k, content, fr, fw) ==
    IF fr \/ ~Visible(L, k)
    THEN Raised(L, <<Req("item", k)>>)
    ELSE IF ZotItem(L, k).itemType # "note"
    THEN Returned(L, FALSE, <<Req("item", k)>>, 0, FALSE)
    ELSE LET log == <<Req("item", k), Req("update_item", k)>> IN
         IF fw
         THEN Raised(L, log)
         ELSE Returned(ZotUpdateItem(L, [ZotItem(L, k) EXCEPT !.note = content]),
                       TRUE, log, 0, FALSE)

\* update_note: read the item, refuse what is not a note, write the new
\* content; every exception becomes a success False dict
UpdateNote(L, k, content, fr, fw) ==
    IF fr \/ ~Visible(L, k)
    THEN Returned(L, FALSE, <<Req("item", k)>>, 0, TRUE)
    ELSE IF ZotItem(L, k).itemType # "note"
    THEN Returned(L, FALSE, <<Req("item", k)>>, 0, FALSE)
    ELSE LET log == <<Req("item", k), Req("update_item", k)>> IN
         IF fw
         THEN Returned(L, FALSE, log, 0, TRUE)
         ELSE Returned(ZotUpdateItem(L, [ZotItem(L, k) EXCEPT !.note = content]),
                       TRUE, log, 0, FALSE)

\* delete_note, variant that trashes the item without looking at its
\* itemType
DeleteNoteAnyType(L, k, fr, fw) ==
    IF fr \/ ~Visible(L, k)
    THEN Returned(L, FALSE, <<Req("item", k)>>, 0, TRUE)
    ELSE LET log == <<Req("item", k), Req("delete_item", k)>> IN
         IF fw
         THEN Returned(L, FALSE, log, 0, TRUE)
         ELSE Returned(ZotDeleteItem(L, k), TRUE, log, 0, FALSE)

\* delete_note: read the item, refuse what is not a note, trash it; every
\* exception becomes a success False dict
DeleteNote(L, k, fr, fw) ==
    IF fr \/ ~Visible(L, k)
    THEN Returned(L, FALSE, <<Req("item", k)>>, 0, TRUE)
    ELSE IF ZotItem(L, k).itemType # "note"
    THEN Returned(L, FALSE, <<Req("item", k)>>, 0, FALSE)
    ELSE LET log == <<Req("item", k), Req("delete_item", k)>> IN
         IF fw
         THEN Returned(L, FALSE, log, 0, TRUE)
         ELSE Returned(ZotDeleteItem(L, k), TRUE, log, 0, FALSE)

\* delete_collection, variant that reports success for a key no collection
\* has (nothing to delete)
DeleteCollectionSilent(L, c, f) ==
    IF f
    THEN Returned(L, FALSE, <<Req("delete_collection", c)>>, 0, TRUE)
    ELSE Returned(IF c \in DOMAIN L.colls THEN ZotDeleteCollection(L, c) ELSE L,
                  TRUE, <<Req("delete_collection", c)>>, 0, FALSE)

\* delete_collection: zot.delete_collection(key) inside try/except
DeleteCollection(L, c, f) ==
    IF f \/ c \notin DOMAIN L.colls
    THEN Returned(L, FALSE, <<Req("delete_collection", c)>>, 0, TRUE)
    ELSE Returned(ZotDeleteCollection(L, c), TRUE,
                  <<Req("delete_collection", c)>>, 0, FALSE)

\* rename_collection: zot.collection(key), set the name,
\* zot.update_collection(collection), inside try/except
RenameCollection(L, c, name, fr, fw) ==
    IF fr \/ c \notin DOMAIN L.colls
    THEN Returned(L, FALSE, <<Req("collection", c)>>, 0, TRUE)
    ELSE LET log == <<Req("collection", c), Req("update_collection", c)>> IN
         IF fw
         THEN Returned(L, FALSE, log, 0, TRUE)
         ELSE Returned(ZotUpdateCollection(L, c, [L.colls[c] EXCEPT !.name = name]),
                       TRUE, log, 0, FALSE)

\* _all_items as a function of the item list the API pages over: the pages
\* from offset s on, up to the first empty or short one
RECURSIVE AllItemsFrom(_, _)
AllItemsFrom(items, s) ==
    LET page == ZotItems(items, s, Limit) IN
    IF page = <<>> THEN <<>>
    ELSE IF Len(page) < Limit THEN page
    ELSE page \o AllItemsFrom(items, s + Limit)

\* list(_all_items(zot)): the item dicts of the visible items
AllItems(L) ==
    LET ks == VisibleKeys(L)
    IN AllItemsFrom([i \in 1..Len(ks) |-> L.items[ks[i]]], 0)

\* merge_tags, the inner loop over current_tags: new_tags after the tags of
\* `current` have been visited
RECURSIVE MergeTagList(_, _, _, _)
MergeTagList(current, new, source, target) ==
    IF current = <<>> THEN new
    ELSE LET tag == Head(current) IN
         MergeTagList(Tail(current),
            IF tag \in Range(source)
            THEN (IF target \in Range(new) THEN new ELSE Append(new, target))
            ELSE (IF tag \notin Range(new) THEN Append(new, tag) ELSE new),
            source, target)

\* merge_tags, the loop over the items: an item with a source tag is written
\* with its new tags; a write that raises is passed over (except: pass)
RECURSIVE MergeTagsLoop(_, _, _, _, _)
MergeTagsLoop(o, items, source, target, failKeys) ==
    IF items = <<>> THEN o
    ELSE LET item == Head(items)
             changed == Range(item.tags) \cap Range(source) # {}
             new == [item EXCEPT !.tags = MergeTagList(@, <<>>, source, target)]
             log == Append(o.log, Req("update_item", item.key))
         IN MergeTagsLoop(
                IF ~changed THEN o
                ELSE IF item.key \in failKeys \/ ~AcceptsUpdate(o.lib, new)
                THEN [o EXCEPT !.log = log, !.failed = TRUE]
                ELSE [o EXCEPT !.lib = ZotUpdateItem(@, new), !.log = log,
                               !.count = @ + 1],
                Tail(items), source, target, failKeys)

\* merge_tags: failPage: the page request of _all_items raises (caught by the
\* outer except); failKeys: the items whose update request raises
MergeTags(L, source, target, failPage, failKeys) ==
    IF failPage
    THEN Returned(L, FALSE, <<Req("items", "")>>, 0, TRUE)
    ELSE MergeTagsLoop(Returned(L, TRUE, <<Req("items", "")>>, 0, FALSE),
                       AllItems(L), source, target, failKeys)

(***************************************************************************)
(* The toolkit calls as actions on the library.                            *)
(***************************************************************************)
\* no toolkit call has ended yet
NoCall == [op |-> "none", key |-> NX, args |-> <<>>, out |-> "returned",
           success |-> TRUE, log |-> <<>>, count |-> 0, failed |-> FALSE]

\* the pagination state at rest
PgIdle ==
    /\ pgLib = <<>>
    /\ start = 0
    /\ yielded = <<>>
    /\ starts = <<>>
    /\ pgPc = "done"
    /\ pgChanged = FALSE

\* the call `name` on key k with the further arguments args ends with
\* outcome o
CallWith(name, k, args, o) ==
    /\ o.lib.version <= MaxVersion
    /\ lib' = o.lib
    /\ res' = [op |-> name, key |-> k, args |-> args, out |-> o.out,
               success |-> o.success, log |-> o.log, count |-> o.count,
               failed |-> o.failed]
    /\ UNCHANGED <<localVars, pgVars, raceVars, agentVars>>

Call(name, k, o) == CallWith(name, k, <<>>, o)

\* the item keys, collection keys and values the calls are made with
ItemArgs == {"K1", NX}

NoteArgs == {"N1", "K1", NX}

CollArgs == {"C1", "C2", NXC}

\* which request of a call fails for a reason outside the library
Faults == {"none", "read", "write"}

FieldArgs == {[title |-> "t1"], [title |-> "t0"]}

TagArgs == {<<"a">>}

InitLibrary ==
    [items |-> [k \in {"K1", "N1"} |->
                    IF k = "K1" THEN Item("K1", "book", "", "t0", <<>>, <<"C1">>)
                    ELSE [Item("N1", "note", "K1", "", <<>>, <<>>)
                            EXCEPT !.note = "n0"]],
     trash |-> {},
     colls |-> [c \in {"C1", "C2"} |-> [key |-> c, name |-> "name0"]],
     version |-> 0]

\* no read-modify-write under way
RaceIdle ==
    /\ clients = <<>>
    /\ lastWriter = "none"

\* no ZoteroAgent in use
AgentIdle ==
    /\ cache = <<>>
    /\ got = <<>>
    /\ agentWrote = <<>>

Init ==
    /\ PgIdle
    /\ LocalIdle
    /\ RaceIdle
    /\ AgentIdle
    /\ lib = InitLibrary
    /\ res = NoCall

GetItemCall ==
    \E k \in ItemArgs, f \in BOOLEAN :
        Call("get_item", k, GetItem(lib, k, f))

GetNotesCall ==
    \E k \in ItemArgs, f \in BOOLEAN :
        Call("get_notes", k, GetNotes(lib, k, f))

GetAttachmentsCall ==
    \E k \in ItemArgs, f \in Faults :
        Call("get_attachments", k, GetAttachments(lib, k, f = "read", f = "write"))

UpdateItemFieldsCall ==
    \E k \in ItemArgs, fields \in FieldArgs, f \in Faults :
        Call("update_item_fields", k, UpdateItemFields(lib, k, fields, f = "read", f = "write"))

AddTagsToItemCall ==
    \E k \in ItemArgs, tags \in TagArgs, f \in Faults :
        Call("add_tags_to_item", k, AddTagsToItem(lib, k, tags, f = "read", f = "write"))

RemoveTagsFromItemCall ==
    \E k \in ItemArgs, tags \in TagArgs, f \in Faults :
        Call("remove_tags_from_item", k, RemoveTagsFromItem(lib, k, tags, f = "read", f = "write"))

MoveItemToCollectionCall ==
    \E k \in ItemArgs, c \in CollArgs, f \in Faults :
        Call("move_item_to_collection", k, MoveItemToCollection(lib, k, c, f = "read", f = "write"))

AddItemToCollectionCall ==
    \E k \in ItemArgs, c \in CollArgs, f \in Faults :
        Call("add_item_to_collection", k, AddItemToCollection(lib, k, c, f = "read", f = "write"))

RemoveItemFromCollectionCall ==
    \E k \in ItemArgs, c \in CollArgs, f \in Faults :
        Call("remove_item_from_collection", k,
             RemoveItemFromCollection(lib, k, c, f = "read", f = "write"))

AddCitationRelationCall ==
    \E k \in ItemArgs, f \in Faults :
        Call("add_citation_relation", k,
             AddCitationRelation(lib, k, "cites", "doi:1", f = "read", f = "write"))

DeleteItemCall ==
    \E k \in ItemArgs, f \in BOOLEAN :
        Call("delete_item", k, DeleteItem(lib, k, f))

AttachNoteCall ==
    \E k \in ItemArgs, f \in BOOLEAN :
        /\ NextKey(lib) # NX
        /\ Call("attach_note", k, AttachNote(lib, k, "n1", f))

UpdateNoteCall ==
    \E k \in NoteArgs, f \in Faults :
        Call("update_note", k, UpdateNote(lib, k, "n1", f = "read", f = "write"))

DeleteNoteCall ==
    \E k \in NoteArgs, f \in Faults :
        Call("delete_note", k, DeleteNote(lib, k, f = "read", f = "write"))

DeleteCollectionCall ==
    \E c \in CollArgs, f \in BOOLEAN :
        Call("delete_collection", c, DeleteCollection(lib, c, f))

RenameCollectionCall ==
    \E c \in CollArgs, f \in Faults :
        Call("rename_collection", c, RenameCollection(lib, c, "name1", f = "read", f = "write"))

MergeTagsCall ==
    \E fp \in BOOLEAN, fk \in SUBSET {"K1"} :
        CallWith("merge_tags", "", [source |-> <<"a">>, target |-> "b"],
                 MergeTags(lib, <<"a">>, "b", fp, fk))

Next ==
    \/ GetItemCall
    \/ GetNotesCall
    \/ GetAttachmentsCall
    \/ UpdateItemFieldsCall
    \/ AddTagsToItemCall
    \/ RemoveTagsFromItemCall
    \/ MoveItemToCollectionCall
    \/ AddItemToCollectionCall
    \/ RemoveItemFromCollectionCall
    \/ AddCitationRelationCall
    \/ DeleteItemCall
    \/ AttachNoteCall
    \/ UpdateNoteCall
    \/ DeleteNoteCall
    \/ DeleteCollectionCall
    \/ RenameCollectionCall
    \/ MergeTagsCall

Spec == Init /\ [][Next]_vars

(***************************************************************************)
(* The operations by the shape of their code.                              *)
(***************************************************************************)
\* get_item, change the item dict, zot.update_item; no try/except
ItemEdits == {"update_item_fields", "add_tags_to_item", "remove_tags_from_item",
              "move_item_to_collection", "add_item_to_collection",
              "remove_item_from_collection", "add_citation_relation"}

\* mutating operations without try/except
Unwrapped == ItemEdits \cup {"delete_item", "attach_note"}

\* mutating operations whose body is one try/except around every request
Wrapped == {"update_note", "delete_note", "delete_collection",
            "rename_collection"}

MutatingOps == Unwrapped \cup Wrapped \cup {"merge_tags"}

MissingKeyOps == {"get_item", "update_item_fields", "delete_item",
                  "add_tags_to_item", "remove_tags_from_item",
                  "move_item_to_collection", "get_notes", "get_attachments"}

\* C2: called with a key that no item of the library has, each of these
\* operations raises and leaves the library as it was.
C2_MissingKeyRaises ==
    [][(res'.op \in MissingKeyOps /\ ~Visible(lib, res'.key))
            => (res'.out = "raised" /\ lib' = lib)]_vars

\* C2 witness: add_tags_to_item on the key of no item has raised
C2_Witness ==
    /\ res.op = "add_tags_to_item" /\ res.key = NX /\ res.out = "raised"
    /\ res.log = <<Req("item", NX)>>

Clients == {"c1", "c2"}

RaceKey == "K1"

\* what a caller changes in the item dict it has read
RaceEdits == {[title |-> "t1"], [title |-> "t2"], [abstractNote |-> "abs1"]}

ClientIdle == [pc |-> "idle", held |-> <<>>, sent |-> <<>>, stale |-> FALSE]

RaceInit ==
    /\ PgIdle
    /\ LocalIdle
    /\ AgentIdle
    /\ lib = InitLibrary
    /\ res = NoCall
    /\ clients = [c \in Clients |-> ClientIdle]
    /\ lastWriter = "none"

\* item = get_item(zot, key)
RaceRead(c) ==
    /\ clients[c].pc = "idle"
    /\ Visible(lib, RaceKey)
    /\ clients' = [clients EXCEPT ![c] =
                     [@ EXCEPT !.pc = "read", !.held = ZotItem(lib, RaceKey)]]
    /\ UNCHANGED <<localVars, pgVars, libVars, lastWriter, agentVars>>

\* item["data"][key] = value; zot.update_item(item)
RaceWrite(c) ==
    /\ clients[c].pc = "read"
    /\ lib.version < MaxVersion
    /\ \E fields \in RaceEdits :
         LET item == SetFields(clients[c].held, fields) IN
         IF AcceptsUpdate(lib, item)
         THEN /\ lib' = ZotUpdateItem(lib, item)
              /\ clients' = [clients EXCEPT ![c] =
                    [@ EXCEPT !.pc = "wrote", !.sent = item,
                              !.stale = (clients[c].held.version
                                            # lib.items[RaceKey].version)]]
              /\ lastWriter' = c
         ELSE /\ clients' = [clients EXCEPT ![c] = [@ EXCEPT !.pc = "raised"]]
              /\ UNCHANGED <<lib, lastWriter>>
    /\ UNCHANGED <<localVars, pgVars, res, agentVars>>

\* the caller starts another read-modify-write
RaceAgain(c) ==
    /\ clients[c].pc = "wrote"
    /\ clients' = [clients EXCEPT ![c] = [@ EXCEPT !.pc = "idle"]]
    /\ UNCHANGED <<localVars, pgVars, libVars, lastWriter, agentVars>>

RaceNext == \E c \in Clients : RaceRead(c) \/ RaceWrite(c) \/ RaceAgain(c)

SpecRace == RaceInit /\ [][RaceNext]_vars

\* C3: when two read-modify-write updates of an item interleave, the write
\* sent from the stale read is accepted and the item then is exactly what
\* that writer sent: the last write wins, the earlier writer's change is gone.
C3_LastWriteWins ==
    \A c \in Clients :
        /\ clients[c].pc # "raised"
        /\ lastWriter = c =>
              lib.items[RaceKey] =
                 [clients[c].sent EXCEPT !.version = lib.version]

\* C3 witness: c1 has set the title, then c2 has written from a read made
\* before that, and the title c1 set is gone
C3_Witness ==
    /\ lastWriter = "c2" /\ clients["c2"].pc = "wrote" /\ clients["c2"].stale
    /\ clients["c1"].pc = "wrote" /\ clients["c1"].sent.title = "t1"
    /\ lib.items[RaceKey].title = "t0"
    /\ lib.items[RaceKey].abstractNote = "abs1"

(***************************************************************************)
(* ZoteroAgent (agents.py): get_item answers from _item_cache, every write *)
(* method pops the item's key from the cache and calls the toolkit.        *)
(***************************************************************************)
AgentKeys == {"K1", NX}

AgentColls == {"C2", NXC}

AgentWriteOps == {"agent.add_tags", "agent.remove_tags",
                  "agent.move_to_collection", "agent.add_to_collection",
                  "agent.remove_from_collection", "agent.update_fields",
                  "agent.delete_item"}

\* a write method that leaves the cache as it is
InvalidateNothing(c, k) == c

\* self._item_cache.pop(item_key, None)
Invalidate(c, k) == [x \in DOMAIN c \ {k} |-> c[x]]

AgentInit ==
    /\ PgIdle
    /\ LocalIdle
    /\ RaceIdle
    /\ lib = InitLibrary
    /\ res = NoCall
    /\ cache = <<>>
    /\ got = <<>>
    /\ agentWrote = [k \in AgentKeys |-> 0]

\* the result register after the agent method `name` on k with outcome o
AgentRes(name, k, o) ==
    [op |-> name, key |-> k, args |-> <<>>, out |-> o.out,
     success |-> o.success, log |-> o.log, count |-> o.count,
     failed |-> o.failed]

\* a write method: pop the key, then return what the toolkit function returns
AgentWrite(name, k, o) ==
    /\ o.lib.version <= MaxVersion
    /\ cache' = Invalidate(cache, k)
    /\ lib' = o.lib
    /\ res' = AgentRes(name, k, o)
    /\ got' = <<>>
    /\ agentWrote' = IF o.lib.version # lib.version
                     THEN [agentWrote EXCEPT ![k] = o.lib.version]
                     ELSE agentWrote
    /\ UNCHANGED <<localVars, pgVars, raceVars>>

\* ZoteroAgent.get_item: fetch and store the item unless the cache has it
AgentGetItem ==
    \E k \in AgentKeys, f \in BOOLEAN :
        /\ IF k \in DOMAIN cache
           THEN /\ got' = cache[k]
                /\ res' = AgentRes("agent.get_item", k,
                                   Returned(lib, TRUE, <<>>, 0, FALSE))
                /\ UNCHANGED cache
           ELSE LET o == GetItem(lib, k, f) IN
                /\ res' = AgentRes("agent.get_item", k, o)
                /\ IF o.out = "returned"
                   THEN /\ cache' = [x \in DOMAIN cache \cup {k} |->
                                       IF x = k THEN ZotItem(lib, k) ELSE cache[x]]
                        /\ got' = ZotItem(lib, k)
                   ELSE /\ got' = <<>>
                        /\ UNCHANGED cache
        /\ UNCHANGED <<localVars, pgVars, raceVars, lib, agentWrote>>

AgentAddTags ==
    \E k \in AgentKeys, tags \in TagArgs, f \in Faults :
        AgentWrite("agent.add_tags", k,
                   AddTagsToItem(lib, k, tags, f = "read", f = "write"))

AgentRemoveTags ==
    \E k \in AgentKeys, tags \in TagArgs, f \in Faults :
        AgentWrite("agent.remove_tags", k,
                   RemoveTagsFromItem(lib, k, tags, f = "read", f = "write"))

AgentMoveToCollection ==
    \E k \in AgentKeys, c \in AgentColls, f \in Faults :
        AgentWrite("agent.move_to_collection", k,
                   MoveItemToCollection(lib, k, c, f = "read", f = "write"))

AgentAddToCollection ==
    \E k \in AgentKeys, c \in AgentColls, f \in Faults :
        AgentWrite("agent.add_to_collection", k,
                   AddItemToCollection(lib, k, c, f = "read", f = "write"))

AgentRemoveFromCollection ==
    \E k \in AgentKeys, c \in AgentColls, f \in Faults :
        AgentWrite("agent.remove_from_collection", k,
                   RemoveItemFromCollection(lib, k, c, f = "read", f = "write"))

AgentUpdateFields ==
    \E k \in AgentKeys, fields \in FieldArgs, f \in Faults :
        AgentWrite("agent.update_fields", k,
                   UpdateItemFields(lib, k, fields, f = "read", f = "write"))

AgentDeleteItem ==
    \E k \in AgentKeys, f \in BOOLEAN :
        AgentWrite("agent.delete_item", k, DeleteItem(lib, k, f))

\* another application (the reference manager itself) edits an item
ExternalWrite ==
    \E k \in {"K1"} :
        /\ Visible(lib, k)
        /\ lib.version < MaxVersion
        /\ lib' = ZotUpdateItem(lib, [lib.items[k] EXCEPT !.title = "ext"])
        /\ UNCHANGED <<localVars, pgVars, raceVars, res, agentVars>>

AgentNext ==
    \/ AgentGetItem
    \/ AgentAddTags
    \/ AgentRemoveTags
    \/ AgentMoveToCollection
    \/ AgentAddToCollection
    \/ AgentRemoveFromCollection
    \/ AgentUpdateFields
    \/ AgentDeleteItem
    \/ ExternalWrite

SpecAgent == AgentInit /\ [][AgentNext]_vars

\* C4: after an agent write method on a key the cache holds no entry for
\* that key, so what the cache holds and what get_item returns is never
\* older than the last agent write to that key.
C4_ClearOnWrite ==
    /\ res.op \in AgentWriteOps => res.key \notin DOMAIN cache
    /\ \A k \in DOMAIN cache : cache[k].version >= agentWrote[k]
    /\ DOMAIN got # {} => got.version >= agentWrote[got.key]

\* C4 witness: get_item was answered from the cache with the item as the
\* agent's own write left it, fetched after that write
C4_Witness ==
    /\ res.op = "agent.get_item" /\ res.log = <<>>
    /\ DOMAIN got # {}
    /\ got.key = "K1" /\ agentWrote["K1"] >= 1
    /\ got.version = agentWrote["K1"]
    /\ got.tags = <<"a">>

(***************************************************************************)
(* merge_items.                                                            *)
(***************************************************************************)
\* the merge operations issue several write requests per call: a call of one
\* starts only while the library version is below this
MaxBulkVersion == 2

\* the orders in which list(a_set) can list the elements of a set
ListsOf(S) == {q \in [1..Cardinality(S) -> S] : Range(q) = S}

\* merge_items, the loop over source_children: each child is created again
\* with parentItem = target_key; a create_items that raises is passed over
RECURSIVE CopyChildren(_, _, _, _)
CopyChildren(o, children, t, failKeys) ==
    IF children = <<>> THEN o
    ELSE LET child == Head(children)
             log == Append(o.log, Req("create_items", child.key))
         IN CopyChildren(
                IF child.key \in failKeys
                THEN [o EXCEPT !.log = log, !.failed = TRUE]
                ELSE [o EXCEPT
                        !.lib = ZotCreateItem(@, [child EXCEPT !.parentItem = t]),
                        !.log = log,
                        !.count = IF child.itemType \in {"attachment", "note"}
                                  THEN @ + 1 ELSE @],
                Tail(children), t, failKeys)

\* merge_items(zot, s, t).  order: the order in which list(target_tags |
\* source_tags) lists the merged tags; f: the request that raises ("source",
\* "target", "update", "children", "delete") or "none"; failKeys: the children
\* whose create_items raises
MergeItems(L, s, t, order, f, failKeys) ==
    IF f = "source" \/ ~Visible(L, s)
    THEN Returned(L, FALSE, <<Req("item", s)>>, 0, TRUE)
    ELSE IF f = "target" \/ ~Visible(L, t)
    THEN Returned(L, FALSE, <<Req("item", s), Req("item", t)>>, 0, TRUE)
    ELSE
    LET source == ZotItem(L, s)
        target == ZotItem(L, t)
        merged == [target EXCEPT
                     !.tags = order,
                     !.relations = [r \in RelKeys |->
                        AppendNew(target.relations[r], source.relations[r])]]
        log3 == <<Req("item", s), Req("item", t), Req("update_item", t)>>
    IN
    IF f = "update" \/ ~AcceptsUpdate(L, merged)
    THEN Returned(L, FALSE, log3, 0, TRUE)
    ELSE
    LET L1 == ZotUpdateItem(L, merged)
        log4 == Append(log3, Req("children", s))
    IN
    IF f = "children"
    THEN Returned(L1, FALSE, log4, 0, TRUE)
    ELSE
    LET o == CopyChildren(Returned(L1, TRUE, log4, 0, FALSE),
                          ZotChildren(L1, s), t, failKeys)
        log5 == Append(o.log, Req("delete_item", s))
    IN
    IF f = "delete" \/ ~Visible(o.lib, s)
    THEN Returned(o.lib, FALSE, log5, o.count, TRUE)
    ELSE Returned(ZotDeleteItem(o.lib, s), TRUE, log5, o.count, o.failed)

\* the call `name` of a merge operation ends with outcome o
CallBulk(name, k, args, o) ==
    /\ lib.version < MaxBulkVersion
    /\ lib' = o.lib
    /\ res' = [op |-> name, key |-> k, args |-> args, out |-> o.out,
               success |-> o.success, log |-> o.log, count |-> o.count,
               failed |-> o.failed]
    /\ UNCHANGED <<localVars, pgVars, raceVars, agentVars>>

MergeKeys == {"K1", "K2", NX}

MergeFaults == {"none", "source", "target", "update", "children", "delete"}

\* the tag lists and relation lists the two items start with
SourceTagLists == {<<"a">>, <<"a", "b">>}

TargetTagLists == {<<>>, <<"b">>}

UriLists == {<<>>, <<"doi:1">>}

\* K1 with a note and an attachment as children, and K2
MergeItemsLibrary(t1, t2, r1, r2) ==
    [items |-> [k \in {"K1", "K2", "N1", "A1"} |->
        CASE k = "K1" -> [Item("K1", "book", "", "t0", t1, <<>>)
                            EXCEPT !.relations["dc:relation:cites"] = r1]
          [] k = "K2" -> [Item("K2", "book", "", "t1", t2, <<>>)
                            EXCEPT !.relations["dc:relation:cites"] = r2]
          [] k = "N1" -> [Item("N1", "note", "K1", "", <<>>, <<>>)
                            EXCEPT !.note = "n0"]
          [] k = "A1" -> Item("A1", "attachment", "K1", "file.pdf", <<>>, <<>>)],
     trash |-> {},
     colls |-> <<>>,
     version |-> 0]

MergeItemsInit ==
    /\ PgIdle
    /\ LocalIdle
    /\ RaceIdle
    /\ AgentIdle
    /\ res = NoCall
    /\ \E t1 \in SourceTagLists, t2 \in TargetTagLists, r2 \in UriLists :
            lib = MergeItemsLibrary(t1, t2, <<"doi:1">>, r2)

\* the merged tag lists list(target_tags | source_tags) can be
TagOrders(L, s, t) ==
    IF Visible(L, s) /\ Visible(L, t)
    THEN ListsOf(Range(L.items[s].tags) \cup Range(L.items[t].tags))
    ELSE {<<>>}

\* the number of keys left for items created in the model
FreeKeyCount(L) == Len(SelectSeq(FreshKeys, LAMBDA k : k \notin DOMAIN L.items))

MergeItemsCall ==
    \E s \in MergeKeys, t \in MergeKeys, f \in MergeFaults :
        \E order \in TagOrders(lib, s, t),
           fk \in SUBSET {c.key : c \in Range(ZotChildren(lib, s))} :
            /\ FreeKeyCount(lib) >= Len(ZotChildren(lib, s))
            /\ CallBulk("merge_items", s, [target |-> t],
                        MergeItems(lib, s, t, order, f, fk))

MergeItemsNext == MergeItemsCall

SpecMergeItems == MergeItemsInit /\ [][MergeItemsNext]_vars

\* child is stored in L as a copy under another key with parentItem t
HasCopy(L, child, t) ==
    \E k \in DOMAIN L.items :
        /\ k # child.key
        /\ L.items[k] = [child EXCEPT !.key = k, !.parentItem = t,
                                      !.version = L.items[k].version]

\* C8: a merge_items(source, target) that returns success True has given
\* target the union of both items' tags and relations and a copy of every
\* child of source, has left target's own fields as they were, and has
\* trashed source after all of that.
C8_MergeItemsTransfersAll ==
    [][(res'.op = "merge_items" /\ res'.out = "returned" /\ res'.success) =>
        LET s == res'.key
            t == res'.args.target
            S == lib.items[s]
            T == lib.items[t]
            T2 == lib'.items[t]
            n == Len(res'.log)
        IN /\ Range(T2.tags) = Range(S.tags) \cup Range(T.tags)
           /\ \A r \in RelKeys : Range(T2.relations[r]) =
                   Range(S.relations[r]) \cup Range(T.relations[r])
           /\ \A c \in Range(ZotChildren(lib, s)) : HasCopy(lib', c, t)
           /\ T2.title = T.title /\ T2.abstractNote = T.abstractNote
           /\ T2.note = T.note /\ T2.itemType = T.itemType
           /\ T2.collections = T.collections
           /\ s \in lib'.trash
           /\ res'.log[n] = Req("delete_item", s)
           /\ \A i \in 1..(n - 1) : res'.log[i].call # "delete_item"
      ]_vars

(***************************************************************************)
(* merge_collections.                                                      *)
(***************************************************************************)
\* merge_collections, the loop over items: add_item_to_collection for each
\* item of a source; one that raises is passed over, the others are counted
RECURSIVE AddItemsToTarget(_, _, _, _)
AddItemsToTarget(o, items, target, failKeys) ==
    IF items = <<>> THEN o
    ELSE LET k == Head(items).key
             a == AddItemToCollection(o.lib, k, target, FALSE, k \in failKeys)
         IN AddItemsToTarget(
                IF a.out = "raised"
                THEN [o EXCEPT !.log = @ \o a.log, !.failed = TRUE]
                ELSE [o EXCEPT !.lib = a.lib, !.log = @ \o a.log,
                               !.count = @ + 1],
                Tail(items), target, failKeys)

\* merge_collections, the first loop over source_keys: a source whose
\* zot.collection_items raises goes to failed_sources
RECURSIVE MergeSources(_, _, _, _, _)
MergeSources(o, sources, target, failList, failKeys) ==
    IF sources = <<>> THEN o
    ELSE LET c == Head(sources)
             o1 == [o EXCEPT !.log = Append(@, Req("collection_items", c))]
         IN MergeSources(
                IF c \in failList \/ c \notin DOMAIN o.lib.colls
                THEN [o1 EXCEPT !.failed = TRUE]
                ELSE AddItemsToTarget(o1, ZotCollectionItems(o.lib, c),
                                      target, failKeys),
                Tail(sources), target, failList, failKeys)

\* merge_collections, the second loop over source_keys:
\* zot.delete_collection for each source; one that raises is passed over
RECURSIVE DeleteSources(_, _, _)
DeleteSources(o, sources, failDel) ==
    IF sources = <<>> THEN o
    ELSE LET c == Head(sources)
             o1 == [o EXCEPT !.log = Append(@, Req("delete_collection", c))]
         IN DeleteSources(
                IF c \in failDel \/ c \notin DOMAIN o.lib.colls
                THEN [o1 EXCEPT !.failed = TRUE]
                ELSE [o1 EXCEPT !.lib = ZotDeleteCollection(@, c)],
                Tail(sources), failDel)

\* merge_collections(zot, sources, target).  failList: the sources whose
\* collection_items raises; failKeys: the items whose update request raises;
\* failDel: the sources whose delete_collection raises
MergeCollections(L, sources, target, failList, failKeys, failDel) ==
    DeleteSources(
        MergeSources(Returned(L, TRUE, <<>>, 0, FALSE), sources, target,
                     failList, failKeys),
        sources, failDel)

SourceKeyLists == {<<"C1">>, <<"C1", "C2">>, <<"C1", "C3">>, <<NXC>>}

TargetKeys == {"C3", NXC}

\* the collections K1 and K2 start in
CollLists1 == {<<"C1">>, <<"C1", "C3">>}

CollLists2 == {<<>>, <<"C1">>, <<"C2">>}

MergeCollectionsLibrary(c1, c2) ==
    [items |-> [k \in {"K1", "K2"} |->
                    IF k = "K1" THEN Item("K1", "book", "", "t0", <<>>, c1)
                    ELSE Item("K2", "book", "", "t1", <<>>, c2)],
     trash |-> {},
     colls |-> [c \in {"C1", "C2", "C3"} |-> [key |-> c, name |-> "name0"]],
     version |-> 0]

MergeCollectionsInit ==
    /\ PgIdle
    /\ LocalIdle
    /\ RaceIdle
    /\ AgentIdle
    /\ res = NoCall
    /\ \E c1 \in CollLists1, c2 \in CollLists2 :
            lib = MergeCollectionsLibrary(c1, c2)

MergeCollectionsCall ==
    \E sources \in SourceKeyLists, target \in TargetKeys :
        \E fl \in SUBSET Range(sources), fk \in SUBSET {"K1", "K2"},
           fd \in SUBSET Range(sources) :
            CallBulk("merge_collections", "",
                     [sources |-> sources, target |-> target],
                     MergeCollections(lib, sources, target, fl, fk, fd))

MergeCollectionsNext == MergeCollectionsCall

SpecMergeCollections == MergeCollectionsInit /\ [][MergeCollectionsNext]_vars

\* the positions of the requests `call` in a log
Positions(log, call) == {i \in DOMAIN log : log[i].call = call}

\* C9: a merge_collections(source_keys, target_key) that returns success True
\* has made every item of every source collection a member of target, has
\* deleted source collections only after the additions, and reports as
\* moved_items the number of additions it performed.
C9_MergeCollectionsMovesAll ==
    [][(res'.op = "merge_collections" /\ res'.out = "returned"
            /\ res'.success) =>
        LET sources == Range(res'.args.sources) \cap DOMAIN lib.colls
            t == res'.args.target
            deleted == Cardinality(DOMAIN lib.colls \ DOMAIN lib'.colls)
        IN /\ \A c \in sources :
                \A item \in Range(ZotCollectionItems(lib, c)) :
                    t \in Range(lib'.items[item.key].collections)
           /\ \A i \in Positions(res'.log, "update_item"),
                 j \in Positions(res'.log, "delete_collection") : i < j
           /\ res'.count = (lib'.version - lib.version) - deleted
      ]_vars

(***************************************************************************)
(* merge_tags over libraries with several tagged items.                    *)
(***************************************************************************)
SourceTagArgs == {<<>>, <<"a">>, <<"b">>, <<"a", "c">>}

TargetTagArgs == {"a", "b"}

\* the tag lists K1 and K2 start with
TagLists1 == {<<"a">>, <<"b", "a">>, <<"c", "a", "d">>}

TagLists2 == {<<>>, <<"d">>, <<"c">>}

MergeTagsLibrary(t1, t2) ==
    [items |-> [k \in {"K1", "K2"} |->
                    IF k = "K1" THEN Item("K1", "book", "", "t0", t1, <<>>)
                    ELSE Item("K2", "book", "", "t1", t2, <<>>)],
     trash |-> {},
     colls |-> <<>>,
     version |-> 0]

MergeTagsInit ==
    /\ PgIdle
    /\ LocalIdle
    /\ RaceIdle
    /\ AgentIdle
    /\ res = NoCall
    /\ \E t1 \in TagLists1, t2 \in TagLists2 : lib = MergeTagsLibrary(t1, t2)

MergeTagsOfCall ==
    \E source \in SourceTagArgs, target \in TargetTagArgs,
       fp \in BOOLEAN, fk \in SUBSET {"K1", "K2"} :
        CallBulk("merge_tags", "", [source |-> source, target |-> target],
                 MergeTags(lib, source, target, fp, fk))

MergeTagsNext == MergeTagsOfCall

SpecMergeTags == MergeTagsInit /\ [][MergeTagsNext]_vars

\* how often tag t occurs in the tag list
Occurrences(tags, t) == Cardinality({i \in DOMAIN tags : tags[i] = t})

\* C10: after a merge_tags(source_tags, target_tag) that returns success True
\* no item carries a source tag other than target_tag, every item that
\* carried a source tag carries target_tag exactly once, every other tag is
\* unchanged, and an item that carried no source tag has not been written;
\* with source_tags = [] or [target_tag] no item's tag set changes.
C10_MergeTagsReplacesAll ==
    [][(res'.op = "merge_tags" /\ res'.out = "returned" /\ res'.success) =>
        LET source == Range(res'.args.source)
            t == res'.args.target
        IN \A k \in Range(VisibleKeys(lib)) :
            LET old == lib.items[k].tags
                new == lib'.items[k].tags
            IN /\ Range(new) \cap (source \ {t}) = {}
               /\ Range(old) \cap source # {} => Occurrences(new, t) = 1
               /\ Without(new, source \cup {t}) = Without(old, source \cup {t})
               /\ Range(old) \cap source = {} =>
                    /\ lib'.items[k] = lib.items[k]
                    /\ Req("update_item", k) \notin Range(res'.log)
               /\ source \subseteq {t} => Range(new) = Range(old)
      ]_vars

(***************************************************************************)
(* rename_tag and delete_tag.                                              *)
(***************************************************************************)
\* rename_tag: [new_name if t == old_name else t for t in current_tags]
RenameTagList(tags, old, new) ==
    [i \in DOMAIN tags |-> IF tags[i] = old THEN new ELSE tags[i]]

\* rename_tag, the loop over the items: an item carrying old_name is written
\* with the renamed tags; a write that raises is passed over (except: pass)
RECURSIVE RenameTagLoop(_, _, _, _, _)
RenameTagLoop(o, items, old, new, failKeys) ==
    IF items = <<>> THEN o
    ELSE LET item == Head(items)
             renamed == [item EXCEPT !.tags = RenameTagList(@, old, new)]
             log == Append(o.log, Req("update_item", item.key))
         IN RenameTagLoop(
                IF old \notin Range(item.tags) THEN o
                ELSE IF item.key \in failKeys \/ ~AcceptsUpdate(o.lib, renamed)
                THEN [o EXCEPT !.log = log, !.failed = TRUE]
                ELSE [o EXCEPT !.lib = ZotUpdateItem(@, renamed), !.log = log,
                               !.count = @ + 1],
                Tail(items), old, new, failKeys)

\* rename_tag: failPage: the page request of _all_items raises (caught by the
\* outer except); failKeys: the items whose update request raises
RenameTag(L, old, new, failPage, failKeys) ==
    IF failPage
    THEN Returned(L, FALSE, <<Req("items", "")>>, 0, TRUE)
    ELSE RenameTagLoop(Returned(L, TRUE, <<Req("items", "")>>, 0, FALSE),
                       AllItems(L), old, new, failKeys)

\* delete_tag, the loop over the items: an item carrying tag_name is written
\* without it; a write that raises is passed over (except: pass)
RECURSIVE DeleteTagLoop(_, _, _, _)
DeleteTagLoop(o, items, tag, failKeys) ==
    IF items = <<>> THEN o
    ELSE LET item == Head(items)
             stripped == [item EXCEPT !.tags = Without(@, {tag})]
             log == Append(o.log, Req("update_item", item.key))
         IN DeleteTagLoop(
                IF tag \notin Range(item.tags) THEN o
                ELSE IF item.key \in failKeys \/ ~AcceptsUpdate(o.lib, stripped)
                THEN [o EXCEPT !.log = log, !.failed = TRUE]
                ELSE [o EXCEPT !.lib = ZotUpdateItem(@, stripped), !.log = log,
                               !.count = @ + 1],
                Tail(items), tag, failKeys)

\* delete_tag
DeleteTag(L, tag, failPage, failKeys) ==
    IF failPage
    THEN Returned(L, FALSE, <<Req("items", "")>>, 0, TRUE)
    ELSE DeleteTagLoop(Returned(L, TRUE, <<Req("items", "")>>, 0, FALSE),
                       AllItems(L), tag, failKeys)

\* the tag renamed or deleted ("z": a tag no item carries), the new name
OldTagArgs == {"a", "d", "z"}

NewTagArgs == {"b", "a"}

RenameTagCall ==
    \E old \in OldTagArgs, new \in NewTagArgs,
       fp \in BOOLEAN, fk \in SUBSET {"K1", "K2"} :
        CallBulk("rename_tag", "", [tag |-> old, new |-> new],
                 RenameTag(lib, old, new, fp, fk))

DeleteTagCall ==
    \E tag \in OldTagArgs, fp \in BOOLEAN, fk \in SUBSET {"K1", "K2"} :
        CallBulk("delete_tag", "", [tag |-> tag],
                 DeleteTag(lib, tag, fp, fk))

TagsNext == RenameTagCall \/ DeleteTagCall

SpecTags == MergeTagsInit /\ [][TagsNext]_vars

\* the visible items of L that carry tag t
Carriers(L, t) == {k \in Range(VisibleKeys(L)) : t \in Range(L.items[k].tags)}

\* C11: after a rename_tag(old, new) or delete_tag(t) that returns success
\* True no item carries the old or deleted tag and updated_items is the
\* number of items that carried it; when no item carried it, updated_items is
\* zero and no item has been written.
C11_TagGoneEverywhere ==
    [][(res'.op \in {"rename_tag", "delete_tag"} /\ res'.out = "returned"
            /\ res'.success) =>
        LET t == res'.args.tag IN
        /\ Carriers(lib', t) = {}
        /\ res'.count = Cardinality(Carriers(lib, t))
        /\ Carriers(lib, t) = {} =>
                /\ res'.count = 0
                /\ Writes(res'.log) = <<>>
                /\ lib' = lib
      ]_vars

(***************************************************************************)
(* add_tags_to_item and remove_tags_from_item on items with several tags.  *)
(***************************************************************************)
\* the tag lists passed to the two calls (the tests pass [], [""], and
\* ["", "valid_tag", ""])
TagListArgs == {<<>>, <<"a">>, <<"b">>, <<"b", "a", "b">>, <<"">>,
                <<"", "v", "">>}

\* the tags K1 starts with
ItemTagLists == {<<>>, <<"a">>, <<"a", "c">>}

ItemTagsInit ==
    /\ PgIdle
    /\ LocalIdle
    /\ RaceIdle
    /\ AgentIdle
    /\ res = NoCall
    /\ \E tags \in ItemTagLists :
            lib = [InitLibrary EXCEPT !.items["K1"].tags = tags]

\* the tags of item k as a caller reads them before the call
TagsBefore(L, k) == IF Visible(L, k) THEN L.items[k].tags ELSE <<>>

AddTagsCall ==
    \E k \in ItemArgs, tags \in TagListArgs, f \in Faults :
        CallWith("add_tags_to_item", k,
                 [tags |-> tags, before |-> TagsBefore(lib, k)],
                 AddTagsToItem(lib, k, tags, f = "read", f = "write"))

RemoveTagsCall ==
    \E k \in ItemArgs, tags \in TagListArgs, f \in Faults :
        CallWith("remove_tags_from_item", k,
                 [tags |-> tags, before |-> TagsBefore(lib, k)],
                 RemoveTagsFromItem(lib, k, tags, f = "read", f = "write"))

ItemTagsNext == AddTagsCall \/ RemoveTagsCall

SpecItemTags == ItemTagsInit /\ [][ItemTagsNext]_vars

\* no element occurs twice in the list
NoDuplicate(q) == \A i, j \in DOMAIN q : q[i] = q[j] => i = j

\* the position of the first occurrence of x in q
FirstIndex(q, x) == CHOOSE i \in DOMAIN q :
                        q[i] = x /\ \A j \in 1..(i - 1) : q[j] # x

C13_EmptyTagsIgnored ==
    (res.op = "add_tags_to_item" /\ res.out = "returned") =>
        LET old == res.args.before
            req == res.args.tags
            new == lib.items[res.key].tags
        IN /\ "" \notin Range(new)
           /\ Range(req) \subseteq {""} => Len(new) = Len(old)
           /\ Range(req) \ {""} \subseteq Range(new)

\* C14: remove_tags_from_item removes exactly the listed tags and no others,
\* and add_tags_to_item(k, [t]) for a tag t not on k followed by
\* remove_tags_from_item(k, [t]) leaves k's tag set as it was before the two.
C14_AddRemoveRoundTrip ==
    [][/\ (res'.op = "remove_tags_from_item" /\ res'.out = "returned") =>
            LET old == res'.args.before
                req == Range(res'.args.tags)
                new == lib'.items[res'.key].tags
            IN /\ Range(new) = Range(old) \ req
               /\ \A t \in Range(new) : Occurrences(new, t) = Occurrences(old, t)
               /\ \A i, j \in DOMAIN new :
                    i < j => FirstIndex(old, new[i]) < FirstIndex(old, new[j])
       /\ (/\ res.op = "add_tags_to_item" /\ res.out = "returned"
           /\ Len(res.args.tags) = 1
           /\ res.args.tags[1] \notin Range(res.args.before)
           /\ res'.op = "remove_tags_from_item" /\ res'.out = "returned"
           /\ res'.key = res.key
           /\ res'.args.tags = res.args.tags) =>
                Range(lib'.items[res.key].tags) = Range(res.args.before)
      ]_vars

\* "b" has been added to an item carrying "a" and removed again
C14_Witness ==
    /\ res.op = "remove_tags_from_item"
    /\ res.out = "returned"
    /\ res.args.before = <<"a", "b">>
    /\ res.args.tags = <<"b">>
    /\ lib.items["K1"].tags = <<"a">>

(***************************************************************************)
(* update_item_fields with several fields.                                 *)
(***************************************************************************)
\* the field names and the values a fields dict is built from ({} included)
FieldNames == {"title", "abstractNote"}

FieldValues == {"x1", "x2"}

UpdateFieldsCall ==
    \E k \in ItemArgs, names \in SUBSET FieldNames, v \in FieldValues,
       f \in Faults :
        LET fields == [n \in names |-> v] IN
        CallWith("update_item_fields", k, [fields |-> fields],
                 UpdateItemFields(lib, k, fields, f = "read", f = "write"))

FieldsNext == UpdateFieldsCall

SpecFields == Init /\ [][FieldsNext]_vars

\* C15: update_item_fields(k, fields) sets the fields named in `fields` to
\* the given values and leaves every other field of k and every other item
\* unchanged; with fields = {} the item is unchanged; so after several
\* updates of a field the item holds the value of the last one.
C15_UpdateSetsNamedFields ==
    [][(res'.op = "update_item_fields" /\ res'.out = "returned") =>
        LET k == res'.key
            fields == res'.args.fields
            old == lib.items[k]
            new == lib'.items[k]
        IN /\ \A f \in DOMAIN fields : new[f] = fields[f]
           /\ \A f \in DOMAIN old \ (DOMAIN fields \cup {"version"}) :
                new[f] = old[f]
           /\ DOMAIN lib'.items = DOMAIN lib.items
           /\ \A j \in DOMAIN lib.items \ {k} : lib'.items[j] = lib.items[j]
           /\ lib'.trash = lib.trash /\ lib'.colls = lib.colls
           /\ DOMAIN fields = {} => [new EXCEPT !.version = old.version] = old
      ]_vars

\* the second of two updates has set the title alone
C15_Witness ==
    /\ res.op = "update_item_fields"
    /\ res.out = "returned"
    /\ DOMAIN res.args.fields = {"title"}
    /\ lib.items["K1"].version = 2
    /\ lib.items["K1"].title = "x2"
    /\ lib.items["K1"].abstractNote = "x1"

(***************************************************************************)
(* The collection memberships of an item: move_item_to_collection,         *)
(* add_item_to_collection, remove_item_from_collection.                    *)
(***************************************************************************)
\* the collection keys passed to the calls (NXC: a key no collection has)
MemberCollArgs == {"C1", "C2", NXC}

\* the collections K1 starts in
MemberLists == {<<>>, <<"C1">>, <<"C1", "C2">>}

MembersInit ==
    /\ PgIdle
    /\ LocalIdle
    /\ RaceIdle
    /\ AgentIdle
    /\ res = NoCall
    /\ \E colls \in MemberLists :
            lib = [InitLibrary EXCEPT !.items["K1"].collections = colls]

MoveToCollectionCall ==
    \E k \in ItemArgs, c \in MemberCollArgs, f \in Faults :
        CallWith("move_item_to_collection", k, [collection |-> c],
                 MoveItemToCollection(lib, k, c, f = "read", f = "write"))

AddToCollectionCall ==
    \E k \in ItemArgs, c \in MemberCollArgs, f \in Faults :
        CallWith("add_item_to_collection", k, [collection |-> c],
                 AddItemToCollection(lib, k, c, f = "read", f = "write"))

RemoveFromCollectionCall ==
    \E k \in ItemArgs, c \in MemberCollArgs, f \in Faults :
        CallWith("remove_item_from_collection", k, [collection |-> c],
                 RemoveItemFromCollection(lib, k, c, f = "read", f = "write"))

MembersNext ==
    \/ MoveToCollectionCall
    \/ AddToCollectionCall
    \/ RemoveFromCollectionCall

SpecMembers == MembersInit /\ [][MembersNext]_vars

\* C16: after move_item_to_collection(k, c) item k belongs to exactly the
\* collection c; after add_item_to_collection(k, c) it belongs to its earlier
\* collections and to c, with c listed once, also when the call is repeated.
C16_MoveReplacesAddKeeps ==
    [][LET k == res'.key
           c == res'.args.collection
           old == lib.items[k].collections
           new == lib'.items[k].collections
       IN /\ (res'.op = "move_item_to_collection" /\ res'.out = "returned")
                => new = <<c>>
          /\ (res'.op = "add_item_to_collection" /\ res'.out = "returned")
                => /\ Range(new) = Range(old) \cup {c}
                   /\ Occurrences(new, c) = 1
                   /\ \A x \in Range(old) :
                        Occurrences(new, x) = Occurrences(old, x)
      ]_vars

\* K1, in C1 and C2, has been moved to C2 alone
C16_Witness ==
    /\ res.op = "move_item_to_collection"
    /\ res.out = "returned"
    /\ res.args.collection = "C2"
    /\ lib.items["K1"].version = 2
    /\ lib.items["K1"].collections = <<"C2">>

\* C17: move_item_to_collection and remove_item_from_collection, called for
\* an existing item with a collection key no collection has, raise and leave
\* the item's collections unchanged.
C17_MissingCollectionRaises ==
    [][(/\ res'.op \in {"move_item_to_collection",
                        "remove_item_from_collection"}
        /\ Visible(lib, res'.key)
        /\ res'.args.collection \notin DOMAIN lib.colls) =>
            /\ res'.out = "raised"
            /\ lib'.items[res'.key].collections
                    = lib.items[res'.key].collections
      ]_vars

(***************************************************************************)
(* The note and collection operations on keys that do not exist.           *)
(***************************************************************************)
\* C18: update_note and delete_note with a key no item has, delete_collection
\* and rename_collection with a key no collection has, return a dict with
\* success False (the except branch, which carries the error message), do
\* not raise, and leave the library unchanged.
C18_MissingKeyReturnsFailure ==
    [][(\/ /\ res'.op \in {"update_note", "delete_note"}
           /\ ~Visible(lib, res'.key)
        \/ /\ res'.op \in {"delete_collection", "rename_collection"}
           /\ res'.key \notin DOMAIN lib.colls) =>
            /\ res'.out = "returned"
            /\ ~res'.success
            /\ res'.failed
            /\ lib' = lib
      ]_vars

\* delete_collection has been called with a key no collection has, after a
\* write to the library
C18_Witness ==
    /\ res.op = "delete_collection"
    /\ res.key = NXC
    /\ res.out = "returned"
    /\ ~res.success
    /\ lib.version > 0

(***************************************************************************)
(* add_citation_relation and get_citations.                                *)
(***************************************************************************)
\* the dict get_citations builds from the relations of an item
Citations(item) ==
    [cites |-> item.relations["dc:relation:cites"],
     citedBy |-> item.relations["dc:relation:citedBy"]]

\* get_citations: zot.item(key), no try/except
GetCitations(L, k, f) ==
    IF f \/ ~Visible(L, k)
    THEN Raised(L, <<Req("item", k)>>)
    ELSE Returned(L, TRUE, <<Req("item", k)>>, 0, FALSE)

RelationTypes == {"cites", "citedBy"}

UriArgs == {"doi:1", "doi:2"}

AddCitationCall ==
    \E k \in ItemArgs, type \in RelationTypes, uri \in UriArgs, f \in Faults :
        CallWith("add_citation_relation", k, [type |-> type, uri |-> uri],
                 AddCitationRelation(lib, k, type, uri, f = "read", f = "write"))

GetCitationsCall ==
    \E k \in ItemArgs, f \in BOOLEAN :
        CallWith("get_citations", k,
                 IF ~f /\ Visible(lib, k) THEN Citations(lib.items[k])
                 ELSE [cites |-> <<>>, citedBy |-> <<>>],
                 GetCitations(lib, k, f))

CitationsNext == AddCitationCall \/ GetCitationsCall

SpecCitations == Init /\ [][CitationsNext]_vars

\* C19: after add_citation_relation(k, type, uri), also when it is repeated,
\* uri is stored exactly once under dc:relation:<type>, the other uris and
\* the relations of the other type are unchanged, and for type "cites"
\* get_citations(k)["cites"] contains uri.
C19_CitationAddedOnce ==
    [][(res'.op = "add_citation_relation" /\ res'.out = "returned") =>
        LET k == res'.key
            uri == res'.args.uri
            rk == RelationKey(res'.args.type)
            old == lib.items[k].relations
            new == lib'.items[k].relations
        IN /\ Occurrences(new[rk], uri) = 1
           /\ \A u \in Range(old[rk]) :
                Occurrences(new[rk], u) = Occurrences(old[rk], u)
           /\ Range(new[rk]) = Range(old[rk]) \cup {uri}
           /\ \A r \in RelKeys \ {rk} : new[r] = old[r]
           /\ res'.args.type = "cites" =>
                uri \in Range(Citations(lib'.items[k]).cites)
      ]_vars

\* the same citation has been added twice and get_citations reports it once
C19_Witness ==
    /\ res.op = "get_citations"
    /\ res.out = "returned"
    /\ res.args.cites = <<"doi:1">>
    /\ res.args.citedBy = <<>>
    /\ lib.items["K1"].version = 2

(***************************************************************************)
(* upload_pdf.                                                             *)
(***************************************************************************)
\* pdf_file.suffix.lower()
Lower(suffix) == IF suffix = ".PDF" THEN ".pdf" ELSE suffix

\* the attachment dict upload_pdf creates; stored: the file's bytes are in
\* the storage for this attachment
PdfAttachment(parent) ==
    Item(NX, "attachment", parent, "file.pdf", <<>>, <<>>) @@ [stored |-> FALSE]

\* the storage has received the file's bytes for attachment k
StoreFile(L, k) == [L EXCEPT !.items[k].stored = TRUE]

\* upload_pdf(zot, parent, path).  exists, suffix: pdf_file.exists() and
\* pdf_file.suffix; f: "open" or "create" when reading the file or
\* zot.create_items raises; post: the POST of the content answers 2xx ("ok"),
\* another status ("status") or raises httpx.HTTPError ("httperror");
\* fallback: Zupload uploads the file ("uploaded"), cannot be imported
\* ("importerror") or raises ("raises")
UploadPdf(L, parent, exists, suffix, f, post, fallback) ==
    IF ~exists \/ Lower(suffix) # ".pdf"
    THEN Returned(L, FALSE, <<>>, 0, FALSE)
    ELSE IF f = "open"
    THEN Returned(L, FALSE, <<>>, 0, TRUE)
    ELSE IF f = "create"
    THEN Returned(L, FALSE, <<Req("create_items", parent)>>, 0, TRUE)
    ELSE
    LET k == NextKey(L)
        L1 == ZotCreateItem(L, PdfAttachment(parent))
        log == <<Req("create_items", parent), Req("post_file", k)>>
    IN
    IF post = "ok"
    THEN Returned(StoreFile(L1, k), TRUE, log, 0, FALSE)
    ELSE IF post = "httperror"
    THEN Returned(L1, FALSE, log, 0, TRUE)
    ELSE IF fallback = "uploaded"
    THEN Returned(StoreFile(L1, k), TRUE, Append(log, Req("zupload", k)), 0, TRUE)
    ELSE IF fallback = "importerror"
    THEN Returned(L1, TRUE, log, 0, TRUE)
    ELSE Returned(L1, TRUE, Append(log, Req("zupload", k)), 0, TRUE)

Suffixes == {".pdf", ".PDF", ".txt", ""}

UploadFaults == {"none", "open", "create"}

PostOutcomes == {"ok", "status", "httperror"}

FallbackOutcomes == {"uploaded", "importerror", "raises"}

UploadPdfCall ==
    \E parent \in ItemArgs, exists \in BOOLEAN, suffix \in Suffixes,
       f \in UploadFaults, post \in PostOutcomes,
       fallback \in FallbackOutcomes :
        /\ NextKey(lib) # NX
        /\ CallWith("upload_pdf", parent,
                    [exists |-> exists, suffix |-> suffix],
                    UploadPdf(lib, parent, exists, suffix, f, post, fallback))

UploadNext == UploadPdfCall

SpecUpload == Init /\ [][UploadNext]_vars

\* C20: upload_pdf returns success True only when the file's bytes have been
\* stored for the attachment it created, and returns success False without
\* a request or a new item when the path does not exist or does not end in
\* .pdf (in any case of the letters).
C20_UploadStoresFile ==
    [][res'.op = "upload_pdf" =>
        LET created == DOMAIN lib'.items \ DOMAIN lib.items IN
        /\ res'.out = "returned"
        /\ res'.success =>
                /\ created # {}
                /\ \A k \in created : lib'.items[k].stored
        /\ (~res'.args.exists \/ res'.args.suffix \notin {".pdf", ".PDF"}) =>
                /\ ~res'.success
                /\ res'.log = <<>>
                /\ lib' = lib
      ]_vars

(***************************************************************************)
(* import_from_json.                                                       *)
(***************************************************************************)
\* the longest list of items given to import_from_json
MaxImport == 2

\* a request of import_from_json for an item of the data
ImportReq(call, item) ==
    [call |-> call, key |-> item.key, parentItem |-> item.parentItem]

\* result = zot.create_items([item_data]); the key of the created item is
\* appended to created_keys; a request that raises skips the item
ImportCreate(o, item, failAt) ==
    LET n == Len(o.log) + 1
        log == Append(o.log, ImportReq("create_items", item))
    IN IF n \in failAt
       THEN [o EXCEPT !.log = log, !.failed = TRUE]
       ELSE [o EXCEPT !.lib = ZotCreateItem(@, item), !.log = log,
                      !.keys = Append(@, NextKey(o.lib))]

\* the body of the loop over parent_items: an item with a key is looked up
\* and, when it exists, updated; when the lookup or the update raises, or the
\* item has no key, it is created
ImportParent(o, item, failAt) ==
    IF item.itemType = "" THEN o
    ELSE IF item.key = "" THEN ImportCreate(o, item, failAt)
    ELSE
    LET n1 == Len(o.log) + 1
        o1 == [o EXCEPT !.log = Append(@, ImportReq("item", item))]
    IN IF n1 \in failAt
       THEN ImportCreate([o1 EXCEPT !.failed = TRUE], item, failAt)
       ELSE IF ~Visible(o.lib, item.key)
       THEN ImportCreate(o1, item, failAt)
       ELSE
       LET n2 == n1 + 1
           o2 == [o1 EXCEPT !.log = Append(@, ImportReq("update_item", item))]
       IN IF n2 \in failAt \/ ~AcceptsUpdate(o.lib, item)
          THEN ImportCreate([o2 EXCEPT !.failed = TRUE], item, failAt)
          ELSE [o2 EXCEPT !.lib = ZotUpdateItem(@, item),
                          !.keys = Append(@, item.key)]

\* the body of the loop over child_items: the item is created
ImportChild(o, item, failAt) ==
    IF item.itemType = "" THEN o ELSE ImportCreate(o, item, failAt)

RECURSIVE ImportParents(_, _, _)
ImportParents(o, items, failAt) ==
    IF items = <<>> THEN o
    ELSE ImportParents(ImportParent(o, Head(items), failAt), Tail(items), failAt)

RECURSIVE ImportChildren(_, _, _)
ImportChildren(o, items, failAt) ==
    IF items = <<>> THEN o
    ELSE ImportChildren(ImportChild(o, Head(items), failAt), Tail(items), failAt)

\* import_from_json(zot, json_data).  parses: json_data is a list of item
\* dicts (or a string that parses to one); failAt: the requests of the call
\* that raise, by their position among its requests
ImportFromJson(L, parses, data, failAt) ==
    LET o0 == Returned(L, TRUE, <<>>, 0, FALSE) @@ [keys |-> <<>>] IN
    IF ~parses THEN o0
    ELSE ImportChildren(
            ImportParents(o0,
                          SelectSeq(data, LAMBDA i : i.parentItem = ""), failAt),
            SelectSeq(data, LAMBDA i : i.parentItem # ""), failAt)

\* the items of the data: K1 and N1 exist in the library, Z1 does not, an
\* item may come without a key, and one comes without an itemType
ImportItems ==
    { Item("K1", "book", "", "imp", <<>>, <<>>),
      Item("", "book", "", "new", <<>>, <<>>),
      Item("Z1", "book", "", "z", <<>>, <<>>),
      [Item("N1", "note", "K1", "", <<>>, <<>>) EXCEPT !.note = "imp"],
      [Item("", "note", "K1", "", <<>>, <<>>) EXCEPT !.note = "new"],
      Item("", "", "", "", <<>>, <<>>) }

ImportData == UNION {[1..n -> ImportItems] : n \in 0..MaxImport}

\* at most one request of a call raises
ImportFailures == {{}} \cup {{n} : n \in 1..(3 * MaxImport)}

ImportFromJsonCall ==
    \E parses \in BOOLEAN, data \in ImportData, failAt \in ImportFailures :
        LET o == ImportFromJson(lib, parses, data, failAt) IN
        /\ parses \/ (data = <<>> /\ failAt = {})
        /\ FreeKeyCount(lib) >= Len(data)
        /\ CallBulk("import_from_json", "",
                    [parses |-> parses, data |-> data, keys |-> o.keys], o)

ImportNext == ImportFromJsonCall

SpecImport == Init /\ [][ImportNext]_vars

\* the requests of the call for items of the data with / without parentItem
ChildRequests(log) == {n \in 1..Len(log) : log[n].parentItem # ""}
ParentRequests(log) == {n \in 1..Len(log) : log[n].parentItem = ""}

\* the items of the data that carry an itemType
Importable(data) == {n \in 1..Len(data) : data[n].itemType # ""}

\* C21: import_from_json issues the create or update request of every item
\* without parentItem before any request for an item with parentItem; an item
\* whose key exists in the library is updated and not created again, the
\* others are created; the returned list holds the keys of exactly the items
\* created or updated.
C21_ImportParentFirst ==
    [][res'.op = "import_from_json" /\ res'.args.parses /\ ~res'.failed =>
        LET log == res'.log
            data == res'.args.data
            keys == Range(res'.args.keys)
        IN /\ \A p \in ParentRequests(log), c \in ChildRequests(log) : p < c
           /\ \A n \in Importable(data) :
                IF Visible(lib, data[n].key)
                THEN /\ \E r \in Range(log) :
                            r.call = "update_item" /\ r.key = data[n].key
                     /\ ~\E r \in Range(log) :
                            r.call = "create_items" /\ r.key = data[n].key
                ELSE \E r \in Range(log) :
                        /\ r.call = "create_items"
                        /\ r.key = data[n].key
                        /\ r.parentItem = data[n].parentItem
           /\ keys = (DOMAIN lib'.items \ DOMAIN lib.items)
                     \cup {k \in DOMAIN lib.items :
                              lib'.items[k] # lib.items[k]}]_vars

(***************************************************************************)
(* arXiv papers on disk: download_arxiv_paper and read_arxiv_paper.        *)
(***************************************************************************)
PaperIds == {"p1", "p2"}

\* storage_path / f"{paper_id}.pdf" and storage_path / f"{paper_id}.md"
PdfPath(id) == <<id, "pdf">>
MarkdownPath(id) == <<id, "md">>

\* the PDF arXiv serves for a paper, and pymupdf4llm.to_markdown of a PDF
ArxivPdf(id) == [pdf |-> id]
ToMarkdown(pdf) == [markdown |-> pdf.pdf]

\* the directory P with content written to the file at path
WriteFile(P, path, content) ==
    [f \in DOMAIN P \cup {path} |-> IF f = path THEN content ELSE P[f]]

\* what a call of the arXiv tools returns
PaperResult(P, ok, md, pdf, log, content) ==
    [papers |-> P, success |-> ok, markdown_path |-> md, pdf_path |-> pdf,
     log |-> log, content |-> content]

\* download_arxiv_paper without the checks for files already downloaded
DownloadArxivPaperAgain(P, id, convert, mkdir, arxiv, conversion) ==
    IF ~mkdir THEN PaperResult(P, FALSE, FALSE, FALSE, <<>>, <<>>)
    ELSE IF arxiv # "found"
    THEN PaperResult(P, FALSE, FALSE, FALSE, <<"results">>, <<>>)
    ELSE
    LET P1 == WriteFile(P, PdfPath(id), ArxivPdf(id))
        log == <<"results", "download_pdf">>
    IN IF convert /\ conversion = "ok"
       THEN PaperResult(WriteFile(P1, MarkdownPath(id),
                                  ToMarkdown(P1[PdfPath(id)])),
                        TRUE, TRUE, TRUE, log, <<>>)
       ELSE PaperResult(P1, TRUE, FALSE, TRUE, log, <<>>)

\* download_arxiv_paper(paper_id, output_dir, convert_to_markdown) on the
\* directory P.  mkdir: storage_path.mkdir succeeds; arxiv: "found",
\* "notfound" (StopIteration) or "error"; conversion: "ok", "importerror"
\* (pymupdf4llm is not installed) or "fails"
DownloadArxivPaper(P, id, convert, mkdir, arxiv, conversion) ==
    IF ~mkdir THEN PaperResult(P, FALSE, FALSE, FALSE, <<>>, <<>>)
    ELSE IF MarkdownPath(id) \in DOMAIN P
    THEN PaperResult(P, TRUE, TRUE, FALSE, <<>>, <<>>)
    ELSE IF PdfPath(id) \in DOMAIN P /\ ~convert
    THEN PaperResult(P, TRUE, FALSE, TRUE, <<>>, <<>>)
    ELSE DownloadArxivPaperAgain(P, id, convert, mkdir, arxiv, conversion)

\* read_arxiv_paper(paper_id, output_dir).  readable: markdown_path.read_text
\* returns the content of the file
ReadArxivPaper(P, id, readable) ==
    IF MarkdownPath(id) \notin DOMAIN P
    THEN PaperResult(P, FALSE, FALSE, FALSE, <<>>, <<>>)
    ELSE IF ~readable
    THEN PaperResult(P, FALSE, FALSE, FALSE, <<>>, <<>>)
    ELSE PaperResult(P, TRUE, FALSE, FALSE, <<>>, P[MarkdownPath(id)])

ArxivOutcomes == {"found", "notfound", "error"}
ConversionOutcomes == {"ok", "importerror", "fails"}

\* a call of the arXiv tools ends with the result o
PaperCall(name, id, args, o) ==
    /\ papers' = o.papers
    /\ res' = [op |-> name, key |-> id,
               args |-> args @@ [markdown_path |-> o.markdown_path,
                                 pdf_path |-> o.pdf_path,
                                 content |-> o.content],
               out |-> "returned", success |-> o.success, log |-> o.log,
               count |-> 0, failed |-> FALSE]
    /\ UNCHANGED <<pgVars, raceVars, agentVars, lib, libraryCache>>

DownloadArxivPaperCall ==
    \E id \in PaperIds, convert, mkdir \in BOOLEAN,
       arxiv \in ArxivOutcomes, conversion \in ConversionOutcomes :
        \* mkdir(parents=True, exist_ok=True) of a directory that holds
        \* files returns without an error
        /\ mkdir \/ papers = <<>>
        /\ PaperCall("download_arxiv_paper", id,
                  [convert |-> convert, readable |-> TRUE],
                  DownloadArxivPaper(papers, id, convert, mkdir, arxiv,
                                     conversion))

ReadArxivPaperCall ==
    \E id \in PaperIds, readable \in BOOLEAN :
        PaperCall("read_arxiv_paper", id,
                  [convert |-> FALSE, readable |-> readable],
                  ReadArxivPaper(papers, id, readable))

\* test_read_existing_paper writes a Markdown file into the directory
WriteMarkdownFile ==
    \E id \in PaperIds :
        /\ papers' = WriteFile(papers, MarkdownPath(id), [markdown |-> "test"])
        /\ res' = [NoCall EXCEPT !.op = "write_text", !.key = id]
        /\ UNCHANGED <<pgVars, raceVars, agentVars, lib, libraryCache>>

\* the fixture temp_dir removes the directory's files after a test
RemoveDirectory ==
    /\ papers # <<>>
    /\ papers' = <<>>
    /\ res' = [NoCall EXCEPT !.op = "rmtree"]
    /\ UNCHANGED <<pgVars, raceVars, agentVars, lib, libraryCache>>

PapersNext ==
    \/ DownloadArxivPaperCall
    \/ ReadArxivPaperCall
    \/ WriteMarkdownFile
    \/ RemoveDirectory

SpecPapers == Init /\ [][PapersNext]_vars

\* C22 (as stated): a read_arxiv_paper call that follows a successful
\* download_arxiv_paper call of the same paper with convert_to_markdown=True
\* returns success with the stored Markdown; read_arxiv_paper returns success
\* False exactly when the Markdown file does not exist; a download when the
\* file exists returns success without a request to arXiv.
C22_DownloadMakesReadable ==
    [][/\ (/\ res.op = "download_arxiv_paper" /\ res.success
           /\ res.args.convert
           /\ res'.op = "read_arxiv_paper" /\ res'.key = res.key
           /\ papers' = papers) =>
              /\ res'.success
              /\ res'.args.content = papers[MarkdownPath(res.key)]
       /\ res'.op = "read_arxiv_paper" /\ papers' = papers =>
              (~res'.success <=> MarkdownPath(res'.key) \notin DOMAIN papers)
       /\ (/\ res'.op = "download_arxiv_paper"
           /\ res' # res
           /\ MarkdownPath(res'.key) \in DOMAIN papers) =>
              (res'.success /\ res'.log = <<>>)]_vars

\* C22 (amended): a read_arxiv_paper call that follows a download_arxiv_paper
\* call of the same paper that returned success with a markdown_path returns
\* success with the stored Markdown, unless reading the file raises;
\* read_arxiv_paper returns success False exactly when the Markdown file does
\* not exist or cannot be read; a download that finds no Markdown file and
\* reports a markdown_path has stored the conversion of the PDF arXiv
\* served; a download when the file exists returns success, issues no
\* request to arXiv and leaves the directory as it is.
C22_ConvertedIsReadable ==
    [][/\ (/\ res.op = "download_arxiv_paper" /\ res.success
           /\ res.args.markdown_path
           /\ res'.op = "read_arxiv_paper" /\ res'.key = res.key
           /\ res'.args.readable
           /\ papers' = papers) =>
              /\ res'.success
              /\ res'.args.content = papers[MarkdownPath(res.key)]
       /\ res'.op = "read_arxiv_paper" /\ papers' = papers =>
              (res'.success <=> /\ MarkdownPath(res'.key) \in DOMAIN papers
                                /\ res'.args.readable)
       /\ (/\ res'.op = "download_arxiv_paper"
           /\ res' # res
           /\ MarkdownPath(res'.key) \notin DOMAIN papers
           /\ res'.args.markdown_path) =>
              /\ MarkdownPath(res'.key) \in DOMAIN papers'
              /\ papers'[MarkdownPath(res'.key)] =
                     ToMarkdown(ArxivPdf(res'.key))
       /\ (/\ res'.op = "download_arxiv_paper"
           /\ res' # res
           /\ MarkdownPath(res'.key) \in DOMAIN papers) =>
              (res'.success /\ res'.log = <<>> /\ papers' = papers)]_vars

\* C22 witness: read_arxiv_paper has returned the Markdown that a download
\* converted from the paper's PDF
C22_Witness ==
    /\ res.op = "read_arxiv_paper"
    /\ res.success
    /\ res.args.content = ToMarkdown(ArxivPdf(res.key))
    /\ PdfPath(res.key) \in DOMAIN papers

(***************************************************************************)
(* import_arxiv_paper and import_arxiv_papers: items saved through the     *)
(* connector endpoints of the desktop application.                         *)
(***************************************************************************)
\* metadata["title"] of a paper
PaperTitle(id) == IF id = "p1" THEN "title of p1" ELSE "title of p2"

\* search_by_title(zot, query): the visible items whose title holds the query
SearchByTitle(L, query) ==
    SelectSeq(AllItems(L), LAMBDA i : i.title = query)

\* import_arxiv_paper(zot, paper_id, collection_key, attach_pdf).  found: the
\* papers arXiv has metadata for; save, pdf, attachment: the status codes of
\* connector/saveItems, of the PDF download and of
\* connector/saveStandaloneAttachment
ImportArxivPaper(L, id, collection_key, attach_pdf, found, save, pdf, attachment) ==
    IF id \notin found
    THEN [lib |-> L, success |-> FALSE, key |-> NX, log |-> <<>>]
    ELSE
    LET item == Item("", "preprint", "", PaperTitle(id), <<"cs.AI">>, <<>>)
        log1 == <<Req("saveItems", id)>>
    IN IF save # 201
       THEN [lib |-> L, success |-> FALSE, key |-> NX, log |-> log1]
       ELSE
       LET L1 == ZotCreateItem(L, item)
           results == SearchByTitle(L1, PaperTitle(id))
           item_key == IF results = <<>> THEN NX ELSE results[1].key
       IN IF attach_pdf /\ item_key # NX /\ pdf = 200
          THEN [lib |-> IF attachment = 201
                        THEN ZotCreateItem(L1,
                                Item("", "attachment", "", "Fulltext PDF",
                                     <<>>, <<>>))
                        ELSE L1,
                success |-> TRUE, key |-> item_key,
                log |-> Append(log1, Req("saveStandaloneAttachment", id))]
          ELSE [lib |-> L1, success |-> TRUE, key |-> item_key, log |-> log1]

\* import_arxiv_papers, the loop over paper_ids: o holds the library, the
\* requests issued, results["success"] and results["keys"] so far
RECURSIVE ImportArxivLoop(_, _, _, _, _, _, _)
ImportArxivLoop(o, ids, collection_key, found, save, pdf, attachment) ==
    IF ids = <<>> THEN o
    ELSE
    LET result == ImportArxivPaper(o.lib, Head(ids), collection_key, TRUE,
                                   found, save, pdf, attachment)
    IN ImportArxivLoop(
          [o EXCEPT !.lib = result.lib,
                    !.log = @ \o result.log,
                    !.failed = @ \/ ~result.success,
                    !.count = IF result.success THEN @ + 1 ELSE @,
                    !.imported = IF result.success
                                 THEN Append(@, Head(ids)) ELSE @,
                    !.keys = IF result.success
                             THEN Append(@, result.key) ELSE @],
          Tail(ids), collection_key, found, save, pdf, attachment)

\* import_arxiv_papers(zot, paper_ids, collection_key)
ImportArxivPapers(L, ids, collection_key, found, save, pdf, attachment) ==
    ImportArxivLoop(Returned(L, TRUE, <<>>, 0, FALSE)
                        @@ [imported |-> <<>>, keys |-> <<>>],
                    ids, collection_key, found, save, pdf, attachment)

PaperIdLists == {<<"p1">>, <<"p2">>, <<"p1", "p2">>, <<"p2", "p2">>}

\* no collection_key, or the key of a collection of the library
CollectionKeyArgs == {"", "C1", "C2"}

ImportArxivPapersCall ==
    \E ids \in PaperIdLists, c \in CollectionKeyArgs, found \in SUBSET PaperIds,
       save \in {201, 500}, pdf \in {200, 404}, attachment \in {201, 500} :
        LET o == ImportArxivPapers(lib, ids, c, found, save, pdf, attachment)
        IN /\ NX \notin DOMAIN o.lib.items
           /\ CallBulk("import_arxiv_papers", "",
                       [ids |-> ids, collection |-> c,
                        imported |-> o.imported, keys |-> o.keys], o)

ArxivImportNext == ImportArxivPapersCall

SpecArxivImport == Init /\ [][ArxivImportNext]_vars

\* C23: after import_arxiv_papers(zot, paper_ids, collection_key) with a
\* collection key, the item of every successfully imported paper is in that
\* collection.
C23_ImportedInCollection ==
    (res.op = "import_arxiv_papers" /\ res.args.collection # "") =>
        \A n \in 1..Len(res.args.imported) :
            /\ res.args.keys[n] \in DOMAIN lib.items
            /\ res.args.collection \in
                  Range(lib.items[res.args.keys[n]].collections)

(***************************************************************************)
(* delete_attachment, with update_note and delete_note, on a library that  *)
(* holds a book, a note and an attachment.                                 *)
(***************************************************************************)
\* delete_attachment: read the item, refuse what is not an attachment, trash
\* it; every exception becomes a success False dict
DeleteAttachment(L, k, fr, fw) ==
    IF fr \/ ~Visible(L, k)
    THEN Returned(L, FALSE, <<Req("item", k)>>, 0, TRUE)
    ELSE IF ZotItem(L, k).itemType # "attachment"
    THEN Returned(L, FALSE, <<Req("item", k)>>, 0, FALSE)
    ELSE LET log == <<Req("item", k), Req("delete_item", k)>> IN
         IF fw
         THEN Returned(L, FALSE, log, 0, TRUE)
         ELSE Returned(ZotDeleteItem(L, k), TRUE, log, 0, FALSE)

AttachmentArgs == {"A1", "N1", "K1", NX}

DeleteAttachmentCall ==
    \E k \in AttachmentArgs, f \in Faults :
        Call("delete_attachment", k,
             DeleteAttachment(lib, k, f = "read", f = "write"))

TypedNext ==
    \/ UpdateNoteCall
    \/ DeleteNoteCall
    \/ DeleteAttachmentCall

SpecTyped == MergeItemsInit /\ [][TypedNext]_vars

\* the items of L outside the trash whose itemType is not type
OfOtherType(L, type) ==
    {k \in DOMAIN L.items : Visible(L, k) /\ L.items[k].itemType # type}

\* C24: update_note and delete_note leave every item whose itemType is not
\* "note" as it is and outside the trash, delete_attachment every item whose
\* itemType is not "attachment"; called on the key of such an item they
\* return success False, issue no write request and leave the library
\* unchanged.
C24_OtherTypesUntouched ==
    [][\A type \in {"note", "attachment"} :
        (\/ (type = "note" /\ res'.op \in {"update_note", "delete_note"})
         \/ (type = "attachment" /\ res'.op = "delete_attachment")) =>
            /\ \A k \in OfOtherType(lib, type) :
                  /\ Visible(lib', k)
                  /\ lib'.items[k] = lib.items[k]
            /\ res'.key \in OfOtherType(lib, type) =>
                  /\ ~res'.success
                  /\ Writes(res'.log) = <<>>
                  /\ lib' = lib]_vars

\* C24 witness: delete_attachment was called on the key of the note, which
\* is still in the library, and returned success False after its read
C24_Witness ==
    /\ res.op = "delete_attachment"
    /\ res.key = "N1"
    /\ Visible(lib, "N1")
    /\ ~res.success
    /\ res.log = <<Req("item", "N1")>>
    /\ ~res.failed

\* C25: merge_items never moves the target item to the trash, for every pair
\* of keys, source_key equal to target_key included.
C25_TargetNotTrashed ==
    [][res'.op = "merge_items" =>
        (Visible(lib, res'.args.target) => Visible(lib', res'.args.target))]_vars

\* C26: merge_collections never deletes the target collection, also when
\* source_keys contains target_key.
C26_TargetCollectionKept ==
    [][res'.op = "merge_collections" =>
        (res'.args.target \in DOMAIN lib.colls =>
            res'.args.target \in DOMAIN lib'.colls)]_vars

(***************************************************************************)
(* The library snapshot _get_library_with_children keeps on the client,    *)
(* and the queries computed from it.                                       *)
(***************************************************************************)
\* c['data'].get('contentType')
ContentType(c) == IF "contentType" \in DOMAIN c THEN c.contentType ELSE ""

\* the items of the library, each with '_children': the attachments, then the
\* notes, whose parentItem is the item's key
WithChildren(L) ==
    LET items == AllItems(L)
        children == SelectSeq(items, LAMBDA i : i.itemType = "attachment")
                    \o SelectSeq(items, LAMBDA i : i.itemType = "note")
    IN [n \in 1..Len(items) |->
            [item |-> items[n],
             children |-> SelectSeq(children,
                            LAMBDA c : c.parentItem = items[n].key)]]

\* _get_library_with_children, variant that fetches the library on every
\* call
GetLibraryFresh(cached, L, f) ==
    IF f
    THEN [cache |-> cached, items |-> <<>>, out |-> "raised",
          log |-> <<Req("items", "")>>]
    ELSE LET items == WithChildren(L) IN
         [cache |-> [set |-> TRUE, items |-> items], items |-> items,
          out |-> "returned",
          log |-> <<Req("items", ""), Req("items", "attachment"),
                    Req("items", "note")>>]

\* _get_library_with_children(zot): the cached list when zot has the
\* attribute _library_cache, else the fetched list, which is then cached.
\* f: a request of the fetch raises
GetLibraryWithChildren(cached, L, f) ==
    IF cached.set
    THEN [cache |-> cached, items |-> cached.items, out |-> "returned",
          log |-> <<>>]
    ELSE GetLibraryFresh(cached, L, f)

\* the keys of the entries of a snapshot, in order
KeysOf(entries) == [n \in 1..Len(entries) |-> entries[n].item.key]

\* items_without_pdf, items_without_attachments and items_with_notes on the
\* list _get_library_with_children returned
ItemsWithoutPdf(items) ==
    KeysOf(SelectSeq(items, LAMBDA e :
        ~\E c \in Range(e.children) :
            c.itemType = "attachment" /\ ContentType(c) = "application/pdf"))

ItemsWithoutAttachments(items) ==
    KeysOf(SelectSeq(items, LAMBDA e :
        ~\E c \in Range(e.children) : c.itemType = "attachment"))

ItemsWithNotes(items) ==
    KeysOf(SelectSeq(items, LAMBDA e :
        \E c \in Range(e.children) : c.itemType = "note"))

SnapshotQueries ==
    {"items_without_pdf", "items_without_attachments", "items_with_notes"}

QueryResult(name, items) ==
    CASE name = "items_without_pdf" -> ItemsWithoutPdf(items)
      [] name = "items_without_attachments" -> ItemsWithoutAttachments(items)
      [] name = "items_with_notes" -> ItemsWithNotes(items)

\* the query `name` on the client: the snapshot is taken from the cache or
\* fetched, and the result computed from it
SnapshotQuery(name, f) ==
    LET o == GetLibraryWithChildren(libraryCache, lib, f) IN
    /\ f => ~libraryCache.set
    /\ libraryCache' = o.cache
    /\ res' = [op |-> name, key |-> "",
               args |-> [result |-> IF o.out = "returned"
                                    THEN QueryResult(name, o.items) ELSE <<>>],
               out |-> o.out, success |-> o.out = "returned", log |-> o.log,
               count |-> 0, failed |-> f]
    /\ UNCHANGED <<pgVars, raceVars, agentVars, lib, papers>>

ItemsWithoutPdfCall == \E f \in BOOLEAN : SnapshotQuery("items_without_pdf", f)

ItemsWithoutAttachmentsCall ==
    \E f \in BOOLEAN : SnapshotQuery("items_without_attachments", f)

ItemsWithNotesCall == \E f \in BOOLEAN : SnapshotQuery("items_with_notes", f)

\* zot = get_zotero(): a new client, without the attribute _library_cache
GetZotero ==
    /\ libraryCache.set
    /\ libraryCache' = [set |-> FALSE, items |-> <<>>]
    /\ res' = [NoCall EXCEPT !.op = "get_zotero"]
    /\ UNCHANGED <<pgVars, raceVars, agentVars, lib, papers>>

\* a book with a note and a PDF attachment, and a book without children
SnapshotInit ==
    /\ PgIdle
    /\ LocalIdle
    /\ RaceIdle
    /\ AgentIdle
    /\ res = NoCall
    /\ lib = [MergeItemsLibrary(<<>>, <<>>, <<>>, <<>>) EXCEPT
                !.items["A1"] = @ @@ [contentType |-> "application/pdf"]]

SnapshotNext ==
    \/ ItemsWithoutPdfCall
    \/ ItemsWithoutAttachmentsCall
    \/ ItemsWithNotesCall
    \/ GetZotero
    \/ DeleteNoteCall
    \/ DeleteAttachmentCall
    \/ AttachNoteCall

SpecSnapshot == SnapshotInit /\ [][SnapshotNext]_vars

\* C27: once a client holds the snapshot, every call of items_without_pdf,
\* items_without_attachments and items_with_notes on that client returns the
\* result computed from the cached list, issues no request and leaves the
\* snapshot as it is, whatever the library holds by then.
C27_SnapshotNeverInvalidated ==
    [][(libraryCache.set /\ res'.op \in SnapshotQueries) =>
        /\ res'.log = <<>>
        /\ libraryCache' = libraryCache
        /\ res'.args.result = QueryResult(res'.op, libraryCache.items)]_vars

\* C27 witness: items_with_notes has answered from the snapshot with K1
\* after the note of K1 went to the trash
C27_Witness ==
    /\ res.op = "items_with_notes"
    /\ res.log = <<>>
    /\ res.args.result = <<"K1">>
    /\ "N1" \in lib.trash
    /\ ItemsWithNotes(WithChildren(lib)) = <<>>

====
